---- MODULE Spec2Model ----
(***************************************************************************)
(* Model of the PostgreSQL metrics exporter's collection engine:           *)
(*   pkg/pgcollector/pgcollector.go  PgCollector.Collect, worker,          *)
(*                                   createMetric, mergeLabels             *)
(*   pkg/config/helpers.go           VerSQLs.Query                         *)
(*   pkg/db/db.go                    ToFloat64, ToString                   *)
(* The orchestrator (Collect), its worker goroutines and the adapters are  *)
(* processes of one state machine; the pure functions are operators.       *)
(***************************************************************************)
EXTENDS Integers, Sequences, FiniteSets

\* ------------------------------------------------------------- bounds
\* number of goroutines that call Collect concurrently
NumCallers == 2
\* largest configured worker count of a target
MaxWorkers == 2
\* longest list of version-bounded SQL variants drawn for VerSQLs.Query
MaxVariants == 2
\* most keys of a label map drawn for mergeLabels
MaxLabels == 2
\* largest integer payload of the raw values drawn for ToFloat64
MaxRaw == 5
\* most words of a driver error message drawn for Db.Exec
MaxMsg == 3
\* most characters of a version string drawn for parseVersion, and most
\* characters before its first dot (the numbers stay far below 2^31)
MaxVerLen == 6
MaxMajorLen == 4

\* ------------------------------------------------------------- constants
\* config.NoVersion
NoVersion == -1
\* column usage (iota)
Discard == 0
Label == 1
Counter == 2
Gauge == 3

Callers == 1..NumCallers
DbNames == {"a", "b"}

\* ------------------------------------------------------------- raw values
\* A raw column value as the row source returns it: the Go dynamic type and
\* the payload.  "other" stands for every shape outside the accepted set.
IntV(n) == [k |-> "int64", v |-> n]
BoolV(b) == [k |-> "bool", v |-> b]
TimeV(sec) == [k |-> "time", v |-> sec]
BytesV(s) == [k |-> "bytes", v |-> s]
StrV(s) == [k |-> "string", v |-> s]
NilV == [k |-> "nil", v |-> 0]
OtherV == [k |-> "other", v |-> 0]

\* float64 results: a finite number n, or not-a-number
Num(n) == [nan |-> FALSE, n |-> n]
NaN == [nan |-> TRUE, n |-> 0]

\* The decimal spelling of the texts that occur as column values.
Spelling ==
  [s \in {"4096", "100", "7", "1", "0"} |->
     CASE s = "4096" -> <<4, 0, 9, 6>>
       [] s = "100" -> <<1, 0, 0>>
       [] s = "7" -> <<7>>
       [] s = "1" -> <<1>>
       [] s = "0" -> <<0>>]

RECURSIVE DigitsValue(_)
DigitsValue(ds) ==
  IF ds = <<>> THEN 0
  ELSE 10 * DigitsValue(SubSeq(ds, 1, Len(ds) - 1)) + ds[Len(ds)]

\* a finite number with a fraction part: n and the digits after the point
Dec(n, frac) == [nan |-> FALSE, n |-> n, frac |-> frac]

\* The spelling of the texts with a decimal point that occur as column values.
Decimals ==
  [s \in {"42.5", "0.5"} |->
     CASE s = "42.5" -> [int |-> <<4, 2>>, frac |-> <<5>>]
       [] s = "0.5" -> [int |-> <<0>>, frac |-> <<5>>]]

\* strconv.ParseFloat on the texts above; any other text does not parse
ParseFloat(s) ==
  IF s \in DOMAIN Spelling
    THEN [ok |-> TRUE, val |-> Num(DigitsValue(Spelling[s]))]
  ELSE IF s \in DOMAIN Decimals
    THEN [ok |-> TRUE, val |-> Dec(DigitsValue(Decimals[s].int), Decimals[s].frac)]
    ELSE [ok |-> FALSE, val |-> NaN]

RECURSIVE NatDigits(_)
NatDigits(n) ==
  IF n < 10 THEN <<n>> ELSE Append(NatDigits(n \div 10), n % 10)

\* fmt.Sprintf("%v", n) for the non-negative integers that have a spelling
FormatInt(n) ==
  CHOOSE s \in DOMAIN Spelling : Spelling[s] = NatDigits(n)

\* (mutant: the nil case is missing and falls to the default case)
ToFloat64NilFails(t) ==
  CASE t.k = "int64" -> [val |-> Num(t.v), err |-> FALSE]
    [] t.k = "float64" -> [val |-> Num(t.v), err |-> FALSE]
    [] t.k = "time" -> [val |-> Num(t.v), err |-> FALSE]
    [] t.k = "bool" -> [val |-> IF t.v THEN Num(1) ELSE Num(0), err |-> FALSE]
    [] t.k \in {"bytes", "string"} ->
         IF ParseFloat(t.v).ok
           THEN [val |-> ParseFloat(t.v).val, err |-> FALSE]
           ELSE [val |-> NaN, err |-> TRUE]
    [] OTHER -> [val |-> NaN, err |-> TRUE]

\* db.ToFloat64: the value and whether an error is returned
ToFloat64(t) ==
  CASE t.k = "int64" -> [val |-> Num(t.v), err |-> FALSE]
    [] t.k = "float64" -> [val |-> Num(t.v), err |-> FALSE]
    [] t.k = "time" -> [val |-> Num(t.v), err |-> FALSE]
    [] t.k = "bool" -> [val |-> IF t.v THEN Num(1) ELSE Num(0), err |-> FALSE]
    [] t.k = "bytes" ->
         IF ParseFloat(t.v).ok
           THEN [val |-> ParseFloat(t.v).val, err |-> FALSE]
           ELSE [val |-> NaN, err |-> TRUE]
    [] t.k = "string" ->
         IF ParseFloat(t.v).ok
           THEN [val |-> ParseFloat(t.v).val, err |-> FALSE]
           ELSE [val |-> NaN, err |-> TRUE]
    [] t.k = "nil" -> [val |-> NaN, err |-> FALSE]
    [] OTHER -> [val |-> NaN, err |-> TRUE]

\* db.ToString: the string and the ok flag
ToString(t) ==
  CASE t.k = "int64" -> [str |-> FormatInt(t.v), ok |-> TRUE]
    [] t.k = "float64" -> [str |-> FormatInt(t.v), ok |-> TRUE]
    [] t.k = "time" -> [str |-> FormatInt(t.v), ok |-> TRUE]
    [] t.k = "bool" -> [str |-> IF t.v THEN "true" ELSE "false", ok |-> TRUE]
    [] t.k = "nil" -> [str |-> "", ok |-> TRUE]
    [] t.k = "bytes" -> [str |-> t.v, ok |-> TRUE]
    [] t.k = "string" -> [str |-> t.v, ok |-> TRUE]
    [] OTHER -> [str |-> "", ok |-> FALSE]

\* ------------------------------------------------------------- VerSQLs.Query
\* (mutant: the upper bound is taken as inclusive)
VerMatchesClosed(version, query) ==
  /\ (version >= query.MinVer \/ query.MinVer = 0)
  /\ (version <= query.MaxVer \/ query.MaxVer = 0)

\* the range test of one variant
VerMatches(version, query) ==
  /\ (version >= query.MinVer \/ query.MinVer = 0)
  /\ (version < query.MaxVer \/ query.MaxVer = 0)

RECURSIVE FirstMatch(_, _, _)
FirstMatch(v, version, i) ==
  IF i > Len(v) THEN ""
  ELSE IF VerMatches(version, v[i]) THEN v[i].SQL
  ELSE FirstMatch(v, version, i + 1)

\* (mutant: the no-version sentinel is not recognised)
UseFirstSoleOnly(v, version) ==
  Len(v) = 1 /\ v[1].MaxVer = 0 /\ v[1].MinVer = 0

\* whether the first entry is returned without looking at the ranges
UseFirst(v, version) ==
  \/ version = NoVersion
  \/ (Len(v) = 1 /\ v[1].MaxVer = 0 /\ v[1].MinVer = 0)

\* v[0] on an empty list: the runtime panics, the call returns no string
IndexPanic == "panic: index out of range [0] with length 0"

\* VerSQLs.Query
Query(v, version) ==
  IF UseFirst(v, version)
    THEN IF Len(v) = 0 THEN IndexPanic ELSE v[1].SQL
    ELSE FirstMatch(v, version, 1)

\* ------------------------------------------------------------- parseVersion
\* a version string is the sequence of its characters
Digit == [c \in {"0", "1", "5"} |-> CASE c = "0" -> 0 [] c = "1" -> 1 [] c = "5" -> 5]

\* \d+
IsDigits(cs) == cs # <<>> /\ \A j \in 1..Len(cs) : cs[j] \in DOMAIN Digit

\* the pieces of the string between its dots
RECURSIVE SplitDots(_)
SplitDots(cs) ==
  IF \A j \in 1..Len(cs) : cs[j] # "." THEN <<cs>>
  ELSE LET dot == CHOOSE j \in 1..Len(cs) :
                    cs[j] = "." /\ \A l \in 1..(j - 1) : cs[l] # "."
       IN <<SubSeq(cs, 1, dot - 1)>> \o SplitDots(SubSeq(cs, dot + 1, Len(cs)))

\* pgVerRegex.FindStringSubmatch for ^(\d+)(?:\.(\d+))?(?:\.(\d+))?$ : nil, or
\* the three groups, a group that took no part being the empty string
FindStringSubmatch(cs) ==
  LET parts == SplitDots(cs)
  IN IF Len(parts) <= 3 /\ \A j \in 1..Len(parts) : IsDigits(parts[j])
       THEN [nil |-> FALSE,
             group |-> [j \in 1..3 |-> IF j <= Len(parts) THEN parts[j] ELSE <<>>]]
       ELSE [nil |-> TRUE, group |-> [j \in 1..3 |-> <<>>]]

\* strconv.Atoi on a string of digits
Atoi(cs) == DigitsValue([j \in 1..Len(cs) |-> Digit[cs[j]]])

\* (mutant: the second part is the minor version whatever the major)
parseVersionThreeParts(str) ==
  LET matches == FindStringSubmatch(str)
      major == Atoi(matches.group[1])
  IN IF matches.nil THEN 0
     ELSE IF matches.group[2] # <<>>
       THEN major * 10000 + Atoi(matches.group[2]) * 100
              + (IF matches.group[3] # <<>> THEN Atoi(matches.group[3]) ELSE 0)
     ELSE major * 10000

\* parseVersion: from major 10 on the second part is added as it is and a
\* third part is not read
parseVersion(str) ==
  LET matches == FindStringSubmatch(str)
      major == Atoi(matches.group[1])
  IN IF matches.nil THEN 0
     ELSE IF major > 9 /\ matches.group[2] # <<>>
       THEN major * 10000 + Atoi(matches.group[2])
     ELSE IF matches.group[2] # <<>>
       THEN major * 10000 + Atoi(matches.group[2]) * 100
              + (IF matches.group[3] # <<>> THEN Atoi(matches.group[3]) ELSE 0)
     ELSE major * 10000

\* ------------------------------------------------------------- mergeLabels
\* for id, value := range m { res[id] = value }
AssignAll(res, m) ==
  [id \in DOMAIN res \cup DOMAIN m |-> IF id \in DOMAIN m THEN m[id] ELSE res[id]]

EmptyMap == [id \in {} |-> ""]

\* (mutant: no map is made, the second loop writes into the first argument)
mergeLabelsInPlace(heap, a, b) ==
  [heap |-> [heap EXCEPT ![a] = AssignAll(heap[a], heap[b])], res |-> a]

\* mergeLabels on the maps it is passed: a Go map is a reference, the heap
\* is the sequence of the maps that exist, a and b are the arguments'
\* places in it.  res := make(prometheus.Labels) is a new place, and the two
\* loops write into it
mergeLabelsHeap(heap, a, b) ==
  LET res == Len(heap) + 1
      made == Append(heap, EmptyMap)
      first == [made EXCEPT ![res] = AssignAll(made[res], made[a])]
      second == [first EXCEPT ![res] = AssignAll(first[res], first[b])]
  IN [heap |-> second, res |-> res]

\* (mutant: the two loops run in the other order)
mergeLabelsFirstWins(a, b) == AssignAll(AssignAll(EmptyMap, b), a)

\* the map mergeLabels returns for two maps
mergeLabels(a, b) ==
  LET r == mergeLabelsHeap(<<a, b>>, 1, 2) IN r.heap[r.res]

\* ------------------------------------------------------------- configuration
VerSQL(sql, min, max) == [SQL |-> sql, MinVer |-> min, MaxVer |-> max]

\* a version-keyed query in column mode (README: pg_slots)
QuerySlots ==
  [Name |-> "pg_slots",
   VerSQL |-> <<VerSQL("A", 100000, 0), VerSQL("B", 90400, 100000)>>,
   Metrics |-> [m \in {"slot_name", "lag", "pad"} |->
                  CASE m = "slot_name" -> Label
                    [] m = "lag" -> Gauge
                    [] m = "pad" -> Discard],
   NameColumn |-> "", ValueColumn |-> ""]

\* a single-SQL query in name/value mode (README: pg_settings)
QuerySettings ==
  [Name |-> "pg_settings",
   VerSQL |-> <<VerSQL("S", 0, 0)>>,
   Metrics |-> [m \in {"work_mem", "max_connections", "pending"} |->
                  CASE m = "work_mem" -> Gauge
                    [] m = "max_connections" -> Counter
                    [] m = "pending" -> Label],
   NameColumn |-> "name", ValueColumn |-> "setting"]

DbConfig(workers, instance, skip, timeout, labels, queries) ==
  [Workers |-> workers, Instance |-> instance, SkipVersionDetection |-> skip,
   StatementTimeout |-> timeout, Labels |-> labels, queries |-> queries]

TargetA(workers, skip, timeout) ==
  DbConfig(workers, "h1:5432", skip, timeout,
           [l \in {"env"} |-> "prod"], <<QuerySlots, QuerySettings>>)

TargetB(instance, skip) ==
  DbConfig(1, instance, skip, 0, [l \in {"env", "pending"} |-> "b"], <<QuerySettings>>)

\* the loaded configurations the collector is run with: every worker count
\* with a statement timeout, and every combination of shared instance and
\* skipped version detection without one
Configs ==
  { [db \in DbNames |-> IF db = "a" THEN TargetA(wa, FALSE, 5)
                                     ELSE TargetB("h2:5432", FALSE)] :
      wa \in 1..MaxWorkers }
  \cup
  { [db \in DbNames |-> IF db = "a" THEN TargetA(1, skipA, 0)
                                     ELSE TargetB(instB, skipB)] :
      skipA \in BOOLEAN, instB \in {"h1:5432", "h2:5432"}, skipB \in BOOLEAN }

\* the name/value query under another SQL text, and a column-mode query with
\* every usage (README: relation_total_size)
QueryNames == [QuerySettings EXCEPT !.VerSQL = <<VerSQL("N", 0, 0)>>]

QueryStat ==
  [Name |-> "pg_stat",
   VerSQL |-> <<VerSQL("C", 0, 0)>>,
   Metrics |-> [m \in {"slot_name", "lag", "xacts", "pad"} |->
                  CASE m = "slot_name" -> Label
                    [] m = "lag" -> Gauge
                    [] m = "xacts" -> Counter
                    [] m = "pad" -> Discard],
   NameColumn |-> "", ValueColumn |-> ""]

\* the configuration the row processing is run with: one worker per target,
\* no version detection, no statement timeout
RowConfigs ==
  { [db \in DbNames |->
       IF db = "a"
         THEN DbConfig(1, "h1:5432", TRUE, 0, [l \in {"env"} |-> "prod"],
                       <<QueryNames, QueryStat>>)
         ELSE TargetB("h2:5432", TRUE)] }

\* what "show server_version_num" may answer
ServerVersions == {80000, 100500}

\* ------------------------------------------------------------- row source
Row3(c1, v1, c2, v2, c3, v3) ==
  [col \in {c1, c2, c3} |-> CASE col = c1 -> v1 [] col = c2 -> v2 [] col = c3 -> v3]

SlotRowOk == Row3("slot_name", StrV("s1"), "lag", IntV(7), "pad", IntV(1))
SlotRowBadLabel == Row3("slot_name", OtherV, "lag", BytesV("100"), "extra", IntV(0))
SlotRowBadValue == Row3("slot_name", StrV("s1"), "lag", OtherV, "pad", IntV(1))
SettingRowA == Row3("name", BytesV("work_mem"), "setting", BytesV("4096"), "pending", BoolV(FALSE))
SettingRowB == Row3("name", BytesV("max_connections"), "setting", BytesV("100"), "pending", BoolV(TRUE))
SettingRowBadName == Row3("name", OtherV, "setting", BytesV("1"), "pending", BoolV(FALSE))

\* a row as the adapter returns it: a map from column name to raw value
Row(pairs) ==
  [col \in { pairs[j][1] : j \in DOMAIN pairs } |->
     pairs[CHOOSE j \in DOMAIN pairs : pairs[j][1] = col][2]]

\* rows of the name/value query: a name that is no configured metric, a value
\* that does not convert, a label that does not convert, and a row whose name
\* and label both do not convert
NameRowUnknown ==
  Row3("name", BytesV("shared_buffers"), "setting", BytesV("7"), "pending", BoolV(FALSE))
NameRowBadValue ==
  Row3("name", BytesV("work_mem"), "setting", OtherV, "pending", BoolV(FALSE))
NameRowBadLabel ==
  Row3("name", BytesV("work_mem"), "setting", BytesV("7"), "pending", OtherV)
NameRowBadBoth == Row3("name", OtherV, "setting", BytesV("1"), "pending", OtherV)

\* rows of the column-mode query pg_stat
StatRow(slot, lag, xacts) ==
  Row(<< <<"slot_name", slot>>, <<"lag", lag>>, <<"xacts", xacts>>,
         <<"pad", IntV(1)>>, <<"extra", IntV(0)>> >>)
StatRowOk == StatRow(StrV("s1"), IntV(7), BytesV("100"))
StatRowBadLabel == StatRow(OtherV, IntV(7), BytesV("100"))
StatRowBadValue == StatRow(StrV("s1"), OtherV, BytesV("100"))
StatRowBadValues == StatRow(StrV("s1"), OtherV, StrV("many"))

\* the row lists conn.Exec may return for a SQL text
RowSets(sql) ==
  CASE sql = "S" -> {<<SettingRowA, SettingRowB>>, <<SettingRowBadName, SettingRowA>>}
    [] sql = "N" -> { <<SettingRowA, SettingRowB>>,
                      <<SettingRowA, SettingRowBadName, SettingRowB>>,
                      <<NameRowUnknown, SettingRowA>>,
                      <<NameRowBadValue, SettingRowA>>,
                      <<NameRowBadLabel, SettingRowB>>,
                      <<NameRowBadBoth>> }
    [] sql = "C" -> { <<StatRowOk, StatRowOk>>,
                      <<StatRowBadLabel, StatRowOk>>,
                      <<StatRowBadValue, StatRowOk>>,
                      <<StatRowOk, StatRowBadValues, StatRowOk>> }
    [] OTHER -> {<<>>, <<SlotRowBadLabel>>, <<SlotRowBadValue, SlotRowOk>>}

\* ------------------------------------------------------------- state
Conns == Callers \X DbNames \X (0..(MaxWorkers - 1))

VARIABLES
  config,      \* p.config: target name -> DbConfig
  mutex,       \* the callers holding p's sync.Mutex
  timeOuts,    \* p.timeOuts
  errors,      \* p.errors
  cpc,         \* position of each Collect call
  dbList,      \* the targets the range over p.config.DbList() has still to visit
  dbName,      \* the target of the current iteration of dbLoop
  i,           \* index of the adapter loop
  qi,          \* index of the range over dbConf.GetQueries()
  pgVersions,  \* Collect's pgVersions map: instance -> version
  dbPool,      \* Collect's dbPool map: target -> index -> entry is non-nil
  dbJobs,      \* Collect's dbJobs map: target -> channel (buffer, capacity, closed,
               \* and the number of jobs sent so far)
  wg,          \* the WaitGroup counter
  toClose,     \* the pool entries the closing loop has still to visit
  conns,       \* the adapters: connection state, statement timeout applied, Close
               \* calls, PgVersion calls
  wpc,         \* position of each worker goroutine
  wjob,        \* the job a worker is processing
  wrows,       \* the rows a worker has still to process
  werr,        \* the err of the conn.Exec of a worker's current iteration
  metricsCh,   \* what the consumer of each call's metricsCh has received
  fatal,       \* the process was ended by log.Fatalf
  arg,         \* arguments of the pure function under check
  ret          \* its result

vars == <<config, mutex, timeOuts, errors, cpc, dbList, dbName, i, qi, pgVersions,
          dbPool, dbJobs, wg, toClose, conns, wpc, wjob, wrows, werr, metricsCh, fatal, arg, ret>>

orch == <<cpc, dbList, dbName, i, qi, pgVersions, dbPool, dbJobs, wg, toClose>>
work == <<wpc, wjob, wrows, werr>>
pure == <<arg, ret>>

EmptyFn == [x \in {} |-> 0]
Put(f, k, v) == [x \in DOMAIN f \cup {k} |-> IF x = k THEN v ELSE f[x]]
\* (mutant: an increment that meets an earlier one is lost)
IncLost(x) == IF x > 0 THEN x ELSE x + 1

\* atomic.AddUint32(&x, 1); the counters are reset every cycle and a cycle
\* records far fewer than 2^32 events, so the uint32 never wraps
Inc(x) == x + 1

NoJob == [Query |-> QuerySettings, dbLabels |-> EmptyMap, pgVersion |-> 0]
NoConn == [st |-> "none", timeout |-> FALSE, closes |-> 0, detects |-> 0]

\* a bag of received metrics: metric -> how many times it was received
BagAdd(b, e) ==
  [x \in DOMAIN b \cup {e} |->
     (IF x \in DOMAIN b THEN b[x] ELSE 0) + (IF x = e THEN 1 ELSE 0)]

RECURSIVE BagAddAll(_, _)
BagAddAll(b, es) ==
  IF es = <<>> THEN b ELSE BagAddAll(BagAdd(b, Head(es)), Tail(es))

BagSize(b) ==
  LET RECURSIVE Sum(_)
      Sum(S) == IF S = {} THEN 0
                ELSE LET x == CHOOSE y \in S : TRUE IN b[x] + Sum(S \ {x})
  IN Sum(DOMAIN b)

Permutations(S) ==
  { p \in [1..Cardinality(S) -> S] : \A x \in S : \E k \in DOMAIN p : p[k] = x }

CollectorInit(callers, configs) ==
  /\ config \in configs
  /\ mutex = {}
  /\ timeOuts = 0
  /\ errors = 0
  /\ cpc = [c \in Callers |-> IF c \in callers THEN "idle" ELSE "absent"]
  /\ dbList = [c \in Callers |-> <<>>]
  /\ dbName = [c \in Callers |-> ""]
  /\ i = [c \in Callers |-> 0]
  /\ qi = [c \in Callers |-> 0]
  /\ pgVersions = [c \in Callers |-> EmptyFn]
  /\ dbPool = [c \in Callers |-> EmptyFn]
  /\ dbJobs = [c \in Callers |-> EmptyFn]
  /\ wg = [c \in Callers |-> 0]
  /\ toClose = [c \in Callers |-> {}]
  /\ conns = [k \in Conns |-> NoConn]
  /\ wpc = [k \in Conns |-> "none"]
  /\ wjob = [k \in Conns |-> NoJob]
  /\ wrows = [k \in Conns |-> <<>>]
  /\ werr = [k \in Conns |-> ""]
  /\ metricsCh = [c \in Callers |-> EmptyFn]
  /\ fatal = FALSE

\* one goroutine calls Collect, again and again
Init ==
  /\ CollectorInit({1}, Configs)
  /\ arg = <<>>
  /\ ret = <<>>

\* several goroutines call Collect
InitConcurrent ==
  /\ CollectorInit(Callers, Configs)
  /\ arg = <<>>
  /\ ret = <<>>

\* ------------------------------------------------------------- Collect
\* (mutant: Collect does not take the lock)
LockAlways(c) == TRUE

\* p.Lock() returns only while no other call holds the mutex
LockFree(c) == mutex = {}

\* p.Lock(): the call starts with a fresh output channel
Lock(c) ==
  /\ ~fatal
  /\ cpc[c] = "idle"
  /\ LockFree(c)
  /\ mutex' = mutex \cup {c}
  /\ cpc' = [cpc EXCEPT ![c] = "locked"]
  /\ UNCHANGED <<config, timeOuts, errors, dbList, dbName, i, qi, pgVersions, dbPool,
                 dbJobs, wg, toClose, conns, work, metricsCh, fatal, pure>>

\* (mutant: the counters are not reset)
ResetKeepsCounters(c) ==
  /\ ~fatal
  /\ cpc[c] = "locked"
  /\ \E order \in Permutations(DbNames) : dbList' = [dbList EXCEPT ![c] = order]
  /\ pgVersions' = [pgVersions EXCEPT ![c] = EmptyFn]
  /\ dbPool' = [dbPool EXCEPT ![c] = EmptyFn]
  /\ dbJobs' = [dbJobs EXCEPT ![c] = EmptyFn]
  /\ wg' = [wg EXCEPT ![c] = 0]
  /\ cpc' = [cpc EXCEPT ![c] = "dbLoop"]
  /\ UNCHANGED <<config, mutex, timeOuts, errors, dbName, i, qi, toClose, conns, work,
                 metricsCh, fatal, pure>>

\* the counters are reset, the maps made and the range over DbList() begins;
\* DbList() ranges over a map, so the targets come in any order
Reset(c) ==
  /\ ~fatal
  /\ cpc[c] = "locked"
  /\ timeOuts' = 0
  /\ errors' = 0
  /\ \E order \in Permutations(DbNames) : dbList' = [dbList EXCEPT ![c] = order]
  /\ pgVersions' = [pgVersions EXCEPT ![c] = EmptyFn]
  /\ dbPool' = [dbPool EXCEPT ![c] = EmptyFn]
  /\ dbJobs' = [dbJobs EXCEPT ![c] = EmptyFn]
  /\ wg' = [wg EXCEPT ![c] = 0]
  /\ cpc' = [cpc EXCEPT ![c] = "dbLoop"]
  /\ UNCHANGED <<config, mutex, dbName, i, qi, toClose, conns, work, metricsCh, fatal,
                 pure>>

\* where a failure while provisioning an adapter continues: break dbLoop
AfterFailure == "wait"

\* head of dbLoop: the next target, its pool slice and its job channel, or the
\* end of the range
DbLoop(c) ==
  /\ ~fatal
  /\ cpc[c] = "dbLoop"
  /\ IF dbList[c] = <<>>
       THEN /\ cpc' = [cpc EXCEPT ![c] = "wait"]
            /\ UNCHANGED <<dbList, dbName, i, dbPool, dbJobs>>
       ELSE LET db == Head(dbList[c])
                workersCnt == config[db].Workers
            IN /\ dbList' = [dbList EXCEPT ![c] = Tail(dbList[c])]
               /\ dbName' = [dbName EXCEPT ![c] = db]
               /\ dbPool' = [dbPool EXCEPT ![c] =
                               Put(dbPool[c], db, [n \in 0..(workersCnt - 1) |-> FALSE])]
               /\ dbJobs' = [dbJobs EXCEPT ![c] =
                               Put(dbJobs[c], db,
                                   [buf |-> <<>>, cap |-> workersCnt, closed |-> FALSE,
                                    sent |-> 0])]
               /\ i' = [i EXCEPT ![c] = 0]
               /\ cpc' = [cpc EXCEPT ![c] = "workers"]
  /\ UNCHANGED <<config, mutex, timeOuts, errors, qi, pgVersions, wg, toClose, conns,
                 work, metricsCh, fatal, pure>>

\* db.New succeeds or fails; conn.PgVersion() answers a version or fails;
\* conn.SetStatementTimeout succeeds or fails
NewResults == {"ok", "fail"}
VersionResults == ServerVersions \cup {NoVersion}
TimeoutResults == {"ok", "fail"}

\* the version block of the adapter loop: the map after it, or "fail" when
\* detection fails (NoVersion as the answer of PgVersion stands for its error)
DetectVersion(versions, dbConf, pgVer) ==
  IF dbConf.Instance \in DOMAIN versions THEN versions
  ELSE IF dbConf.SkipVersionDetection THEN Put(versions, dbConf.Instance, NoVersion)
  ELSE IF pgVer = NoVersion THEN EmptyFn
  ELSE Put(versions, dbConf.Instance, pgVer)

\* (mutant: the version is asked of every adapter, cached or not)
CallsPgVersionEachAdapter(versions, dbConf) == ~dbConf.SkipVersionDetection

\* whether conn.PgVersion() is called in the version block
CallsPgVersion(versions, dbConf) ==
  /\ dbConf.Instance \notin DOMAIN versions
  /\ ~dbConf.SkipVersionDetection

DetectFails(versions, dbConf, pgVer) ==
  /\ CallsPgVersion(versions, dbConf)
  /\ pgVer = NoVersion

\* (mutant: the statement-timeout block is missing)
AppliesTimeoutNever(dbConf) == FALSE

\* the statement-timeout block: whether SetStatementTimeout is called
AppliesTimeout(dbConf) == dbConf.StatementTimeout # 0

\* one iteration of the adapter loop: db.New, the version of the instance,
\* the statement timeout, then the adapter is stored in the pool and its
\* worker started; any failure counts an error and leaves with `break dbLoop`.
\* After the last adapter the range over the queries begins.
Provision(c) ==
  /\ ~fatal
  /\ cpc[c] = "workers"
  /\ LET db == dbName[c]
         dbConf == config[db]
         k == <<c, db, i[c]>>
     IN IF i[c] < dbConf.Workers
          THEN \E new \in NewResults, pgVer \in VersionResults, st \in TimeoutResults :
                 LET opened == [NoConn EXCEPT
                                  !.st = "open",
                                  !.detects = IF CallsPgVersion(pgVersions[c], dbConf)
                                                THEN 1 ELSE 0]
                     verFails == DetectFails(pgVersions[c], dbConf, pgVer)
                     stFails == AppliesTimeout(dbConf) /\ st = "fail"
                 IN /\ UNCHANGED qi
                    /\ IF new = "fail"
                         THEN /\ errors' = Inc(errors)
                              /\ cpc' = [cpc EXCEPT ![c] = AfterFailure]
                              /\ UNCHANGED <<conns, pgVersions, dbPool, wg, wpc, i>>
                       ELSE IF verFails
                         THEN /\ conns' = [conns EXCEPT ![k] = opened]
                              /\ errors' = Inc(errors)
                              /\ cpc' = [cpc EXCEPT ![c] = AfterFailure]
                              /\ UNCHANGED <<pgVersions, dbPool, wg, wpc, i>>
                       ELSE IF stFails
                         THEN /\ conns' = [conns EXCEPT ![k] = opened]
                              /\ pgVersions' = [pgVersions EXCEPT ![c] =
                                                  DetectVersion(pgVersions[c], dbConf, pgVer)]
                              /\ errors' = Inc(errors)
                              /\ cpc' = [cpc EXCEPT ![c] = AfterFailure]
                              /\ UNCHANGED <<dbPool, wg, wpc, i>>
                       ELSE /\ conns' = [conns EXCEPT ![k] =
                                            [opened EXCEPT !.timeout = AppliesTimeout(dbConf)]]
                            /\ pgVersions' = [pgVersions EXCEPT ![c] =
                                                DetectVersion(pgVersions[c], dbConf, pgVer)]
                            /\ dbPool' = [dbPool EXCEPT ![c][db][i[c]] = TRUE]
                            /\ wg' = [wg EXCEPT ![c] = wg[c] + 1]
                            /\ wpc' = [wpc EXCEPT ![k] = "recv"]
                            /\ i' = [i EXCEPT ![c] = i[c] + 1]
                            /\ UNCHANGED <<errors, cpc>>
          ELSE /\ cpc' = [cpc EXCEPT ![c] = "push"]
               /\ qi' = [qi EXCEPT ![c] = 1]
               /\ UNCHANGED <<conns, errors, pgVersions, dbPool, wg, wpc, i>>
  /\ UNCHANGED <<config, mutex, timeOuts, dbList, dbName, dbJobs, toClose, wjob, wrows,
                 werr, metricsCh, fatal, pure>>

\* pgVersions[dbInstance]: a missing key reads as the zero value
VersionOf(versions, dbInstance) ==
  IF dbInstance \in DOMAIN versions THEN versions[dbInstance] ELSE 0

\* the range over the target's queries: each is sent to the job channel as a
\* job (the send waits while the channel is full); the channel is closed after
\* the last one
Push(c) ==
  /\ ~fatal
  /\ cpc[c] = "push"
  /\ LET db == dbName[c]
         queries == config[db].queries
         ch == dbJobs[c][db]
         job == [Query |-> queries[qi[c]], dbLabels |-> config[db].Labels,
                 pgVersion |-> VersionOf(pgVersions[c], config[db].Instance)]
     IN IF qi[c] <= Len(queries)
          THEN /\ Len(ch.buf) < ch.cap
               /\ dbJobs' = [dbJobs EXCEPT ![c][db].buf = Append(ch.buf, job),
                                            ![c][db].sent = ch.sent + 1]
               /\ qi' = [qi EXCEPT ![c] = qi[c] + 1]
               /\ UNCHANGED cpc
          ELSE /\ dbJobs' = [dbJobs EXCEPT ![c][db].closed = TRUE]
               /\ cpc' = [cpc EXCEPT ![c] = "dbLoop"]
               /\ UNCHANGED qi
  /\ UNCHANGED <<config, mutex, timeOuts, errors, dbList, dbName, i, pgVersions, dbPool,
                 wg, toClose, conns, work, metricsCh, fatal, pure>>

\* (mutant: the closing loop is missing)
WaitSkipsClosing(c) ==
  /\ ~fatal
  /\ cpc[c] = "wait"
  /\ wg[c] = 0
  /\ toClose' = [toClose EXCEPT ![c] = {}]
  /\ cpc' = [cpc EXCEPT ![c] = "report"]
  /\ UNCHANGED <<config, mutex, timeOuts, errors, dbList, dbName, i, qi, pgVersions, dbPool,
                 dbJobs, wg, conns, work, metricsCh, fatal, pure>>

\* (mutant: the closing loop does not wait for the workers)
WaitNoBarrier(c) ==
  /\ ~fatal
  /\ cpc[c] = "wait"
  /\ toClose' = [toClose EXCEPT ![c] =
                   { e \in DbNames \X (0..(MaxWorkers - 1)) :
                       e[1] \in DOMAIN dbPool[c] /\ e[2] \in DOMAIN dbPool[c][e[1]] }]
  /\ cpc' = [cpc EXCEPT ![c] = "closing"]
  /\ UNCHANGED <<config, mutex, timeOuts, errors, dbList, dbName, i, qi, pgVersions, dbPool,
                 dbJobs, wg, conns, work, metricsCh, fatal, pure>>

\* wg.Wait() returns once every started worker has called wg.Done()
Wait(c) ==
  /\ ~fatal
  /\ cpc[c] = "wait"
  /\ wg[c] = 0
  /\ toClose' = [toClose EXCEPT ![c] =
                   { e \in DbNames \X (0..(MaxWorkers - 1)) :
                       e[1] \in DOMAIN dbPool[c] /\ e[2] \in DOMAIN dbPool[c][e[1]] }]
  /\ cpc' = [cpc EXCEPT ![c] = "closing"]
  /\ UNCHANGED <<config, mutex, timeOuts, errors, dbList, dbName, i, qi, pgVersions, dbPool,
                 dbJobs, wg, conns, work, metricsCh, fatal, pure>>

\* the closing loop: nil entries are skipped, the others closed; a failing
\* Close ends the process through log.Fatalf
CloseConn(c) ==
  /\ ~fatal
  /\ cpc[c] = "closing"
  /\ IF toClose[c] = {}
       THEN /\ cpc' = [cpc EXCEPT ![c] = "report"]
            /\ UNCHANGED <<toClose, conns, fatal>>
       ELSE \E e \in toClose[c] :
              LET k == <<c, e[1], e[2]>>
              IN /\ toClose' = [toClose EXCEPT ![c] = toClose[c] \ {e}]
                 /\ UNCHANGED cpc
                 /\ IF ~dbPool[c][e[1]][e[2]]
                      THEN UNCHANGED <<conns, fatal>>
                      ELSE \/ /\ conns' = [conns EXCEPT ![k].st = "closed",
                                                         ![k].closes = conns[k].closes + 1]
                              /\ UNCHANGED fatal
                           \/ /\ fatal' = TRUE
                              /\ UNCHANGED conns
  /\ UNCHANGED <<config, mutex, timeOuts, errors, dbList, dbName, i, qi, pgVersions, dbPool,
                 dbJobs, wg, work, metricsCh, pure>>

InternalMetric(name, kind, value) ==
  [src |-> "", ns |-> "pg_exporter", name |-> name, kind |-> kind,
   labels |-> EmptyMap, value |-> value]

\* the keys of internalMetricsDescriptions
internalMetricsDescriptions ==
  {"last_scrape_duration_seconds", "last_scrape_timeouts", "last_scrape_errors"}

\* prometheus.BuildFQName(namespace, "", name), kept as the pair it joins
BuildFQName(namespace, name) == [ns |-> namespace, name |-> name]

\* (mutant: only Label definitions are left out)
DescribeSkipsLabelOnly(cfg) ==
  UNION { UNION { { BuildFQName(cfg[db].queries[q].Name, metricName) :
                      metricName \in { n \in DOMAIN cfg[db].queries[q].Metrics :
                                         cfg[db].queries[q].Metrics[n] # Label } } :
                  q \in DOMAIN cfg[db].queries } :
          db \in DOMAIN cfg }
    \cup { BuildFQName("pg_exporter", name) : name \in internalMetricsDescriptions }

\* Describe: the descriptors sent for the loaded configuration, one for every
\* metric definition of every query of every target that is neither Label
\* nor Discard, and one for each internal metric
Describe(cfg) ==
  UNION { UNION { { BuildFQName(cfg[db].queries[q].Name, metricName) :
                      metricName \in { n \in DOMAIN cfg[db].queries[q].Metrics :
                                         ~(\/ cfg[db].queries[q].Metrics[n] = Label
                                           \/ cfg[db].queries[q].Metrics[n] = Discard) } } :
                  q \in DOMAIN cfg[db].queries } :
          db \in DOMAIN cfg }
    \cup { BuildFQName("pg_exporter", name) : name \in internalMetricsDescriptions }

\* the scrape duration is not modelled: it is reported as zero
InternalMetrics(t, e) ==
  << InternalMetric("last_scrape_duration_seconds", "gauge", Num(0)),
     InternalMetric("last_scrape_timeouts", "counter", Num(t)),
     InternalMetric("last_scrape_errors", "counter", Num(e)) >>

\* the deferred function: the three internal metrics are sent
Report(c) ==
  /\ ~fatal
  /\ cpc[c] = "report"
  /\ metricsCh' = [metricsCh EXCEPT ![c] =
                     BagAddAll(metricsCh[c], InternalMetrics(timeOuts, errors))]
  /\ cpc' = [cpc EXCEPT ![c] = "unlock"]
  /\ UNCHANGED <<config, mutex, timeOuts, errors, dbList, dbName, i, qi, pgVersions, dbPool,
                 dbJobs, wg, toClose, conns, work, fatal, pure>>

\* the deferred p.Unlock(); the call returns and its locals are gone
Unlock(c) ==
  /\ ~fatal
  /\ cpc[c] = "unlock"
  /\ mutex' = mutex \ {c}
  /\ cpc' = [cpc EXCEPT ![c] = "idle"]
  /\ dbList' = [dbList EXCEPT ![c] = <<>>]
  /\ dbName' = [dbName EXCEPT ![c] = ""]
  /\ i' = [i EXCEPT ![c] = 0]
  /\ qi' = [qi EXCEPT ![c] = 0]
  /\ pgVersions' = [pgVersions EXCEPT ![c] = EmptyFn]
  /\ dbPool' = [dbPool EXCEPT ![c] = EmptyFn]
  /\ dbJobs' = [dbJobs EXCEPT ![c] = EmptyFn]
  /\ conns' = [k \in Conns |-> IF k[1] = c THEN NoConn ELSE conns[k]]
  /\ wpc' = [k \in Conns |-> IF k[1] = c THEN "none" ELSE wpc[k]]
  /\ wjob' = [k \in Conns |-> IF k[1] = c THEN NoJob ELSE wjob[k]]
  /\ wrows' = [k \in Conns |-> IF k[1] = c THEN <<>> ELSE wrows[k]]
  /\ metricsCh' = [metricsCh EXCEPT ![c] = EmptyFn]
  /\ UNCHANGED <<config, timeOuts, errors, wg, toClose, werr, fatal, pure>>

\* ------------------------------------------------------------- worker
\* the err values of conn.Exec: nil, db.ErrQueryTimeout, any other error
ErrQueryTimeout == "canceled due to statement timeout"
QueryError == "query error"
NoError == ""

\* job.Metrics[name].Usage: a missing key reads as the zero value, Discard
UsageOf(job, name) ==
  IF name \in DOMAIN job.Query.Metrics THEN job.Query.Metrics[name] ELSE Discard

\* row[column]: a missing column reads as nil
Cell(row, column) == IF column \in DOMAIN row THEN row[column] ELSE NilV

\* (mutant: a name with any usage gives a metric)
createMetricAnyUsage(src, job, name, constLabels, rawValue) ==
  LET f == ToFloat64(rawValue)
      kind == IF UsageOf(job, name) = Counter THEN "counter" ELSE "gauge"
      m == [src |-> src, ns |-> job.Query.Name, name |-> name, kind |-> kind,
            labels |-> constLabels, value |-> f.val]
  IN IF f.err THEN [res |-> "err", m |-> m] ELSE [res |-> "metric", m |-> m]

\* (mutant: the Counter case is missing from the switch)
createMetricGaugeOnly(src, job, name, constLabels, rawValue) ==
  LET f == ToFloat64(rawValue)
      m == [src |-> src, ns |-> job.Query.Name, name |-> name, kind |-> "gauge",
            labels |-> constLabels, value |-> f.val]
  IN IF UsageOf(job, name) # Gauge THEN [res |-> "nil", m |-> m]
     ELSE IF f.err THEN [res |-> "err", m |-> m]
     ELSE [res |-> "metric", m |-> m]

\* createMetric: a metric, nil (no metric and no error), or an error
createMetric(src, job, name, constLabels, rawValue) ==
  LET usage == UsageOf(job, name)
      f == ToFloat64(rawValue)
      metric(kind) == [src |-> src, ns |-> job.Query.Name, name |-> name, kind |-> kind,
                       labels |-> constLabels, value |-> f.val]
  IN CASE usage = Counter ->
            IF f.err THEN [res |-> "err", m |-> metric("counter")]
            ELSE [res |-> "metric", m |-> metric("counter")]
       [] usage = Gauge ->
            IF f.err THEN [res |-> "err", m |-> metric("gauge")]
            ELSE [res |-> "metric", m |-> metric("gauge")]
       [] OTHER -> [res |-> "nil", m |-> metric("")]

\* the columns of the job with usage Label
LabelColumns(job) ==
  { name \in DOMAIN job.Query.Metrics : job.Query.Metrics[name] = Label }

\* (mutant: a label whose conversion fails is left out of the map)
RowLabelsDropFailed(job, row) ==
  [columnName \in { l \in LabelColumns(job) : ToString(Cell(row, l)).ok } |->
     ToString(Cell(row, columnName)).str]

\* the labels map of a row: every label column gets its string, the empty
\* string when the conversion fails
RowLabels(job, row) ==
  [columnName \in LabelColumns(job) |-> ToString(Cell(row, columnName)).str]

\* the number of label columns of the row whose conversion fails
LabelErrors(job, row) ==
  Cardinality({ columnName \in LabelColumns(job) : ~ToString(Cell(row, columnName)).ok })

\* (mutant: a column that does not convert is skipped, the range goes on)
RECURSIVE ColumnsSkipFailed(_, _, _, _, _, _)
ColumnsSkipFailed(src, job, row, labels, constLabels, cols) ==
  IF cols = <<>> THEN [emit |-> <<>>, errs |-> 0, abandon |-> FALSE]
  ELSE LET colName == Head(cols)
           rest == ColumnsSkipFailed(src, job, row, labels, constLabels, Tail(cols))
           r == createMetric(src, job, colName, constLabels, row[colName])
       IN IF colName \in DOMAIN labels THEN rest
          ELSE IF colName \notin DOMAIN job.Query.Metrics THEN rest
          ELSE IF r.res = "err" THEN [rest EXCEPT !.errs = rest.errs + 1]
          ELSE IF r.res = "metric" THEN [rest EXCEPT !.emit = <<r.m>> \o rest.emit]
          ELSE rest

\* column mode: the range over the row's columns in the order `cols`, up to
\* the first createMetric error
RECURSIVE Columns(_, _, _, _, _, _)
Columns(src, job, row, labels, constLabels, cols) ==
  IF cols = <<>> THEN [emit |-> <<>>, errs |-> 0, abandon |-> FALSE]
  ELSE LET colName == Head(cols)
           rest == Columns(src, job, row, labels, constLabels, Tail(cols))
           r == createMetric(src, job, colName, constLabels, row[colName])
       IN IF colName \in DOMAIN labels THEN rest
          ELSE IF colName \notin DOMAIN job.Query.Metrics THEN rest
          ELSE IF r.res = "err" THEN [emit |-> <<>>, errs |-> 1, abandon |-> TRUE]
          ELSE IF r.res = "metric" THEN [rest EXCEPT !.emit = <<r.m>> \o rest.emit]
          ELSE rest

\* (mutant: a name that does not convert skips the row, not the job)
NameValueSkipsRow(src, job, row, constLabels) ==
  LET n == ToString(Cell(row, job.Query.NameColumn))
      r == createMetric(src, job, n.str, constLabels, Cell(row, job.Query.ValueColumn))
  IN IF ~n.ok THEN [emit |-> <<>>, errs |-> 1, abandon |-> FALSE]
     ELSE IF r.res = "err" THEN [emit |-> <<>>, errs |-> 1, abandon |-> TRUE]
     ELSE IF r.res = "metric" THEN [emit |-> <<r.m>>, errs |-> 0, abandon |-> FALSE]
     ELSE [emit |-> <<>>, errs |-> 0, abandon |-> FALSE]

\* name/value mode: one metric named by the row's name column
NameValue(src, job, row, constLabels) ==
  LET n == ToString(Cell(row, job.Query.NameColumn))
      r == createMetric(src, job, n.str, constLabels, Cell(row, job.Query.ValueColumn))
  IN IF ~n.ok THEN [emit |-> <<>>, errs |-> 1, abandon |-> TRUE]
     ELSE IF r.res = "err" THEN [emit |-> <<>>, errs |-> 1, abandon |-> TRUE]
     ELSE IF r.res = "metric" THEN [emit |-> <<r.m>>, errs |-> 0, abandon |-> FALSE]
     ELSE [emit |-> <<>>, errs |-> 0, abandon |-> FALSE]

\* the body of the loop over rows, for every order in which the range over
\* the row's columns may run: the metrics sent, the errors counted, and
\* whether the rest of the job is abandoned (continue jobs)
ProcessRow(src, job, row) ==
  LET labels == RowLabels(job, row)
      constLabels == mergeLabels(job.dbLabels, labels)
      lerrs == LabelErrors(job, row)
      outs == IF job.Query.NameColumn # ""
                THEN { NameValue(src, job, row, constLabels) }
                ELSE { Columns(src, job, row, labels, constLabels, cols) :
                         cols \in Permutations(DOMAIN row) }
  IN { [o EXCEPT !.errs = o.errs + lerrs] : o \in outs }

\* (mutant: an empty SQL text is not noticed)
UnresolvedNever(sql) == FALSE

\* sql == "": no variant of the query is for the job's version
Unresolved(sql) == sql = ""

\* for job := range jobs: the next job is received and its SQL resolved, or
\* the channel is closed and drained and the worker ends with wg.Done(); a
\* panic of Query in the worker's goroutine ends the process
Recv(k) ==
  /\ ~fatal
  /\ wpc[k] = "recv"
  /\ LET c == k[1]
         ch == dbJobs[c][k[2]]
     IN IF ch.buf # <<>>
          THEN LET job == Head(ch.buf)
                   sql == Query(job.Query.VerSQL, job.pgVersion)
               IN /\ dbJobs' = [dbJobs EXCEPT ![c][k[2]].buf = Tail(ch.buf)]
                  /\ UNCHANGED wg
                  /\ IF sql = IndexPanic
                       THEN /\ fatal' = TRUE
                            /\ UNCHANGED <<errors, wpc, wjob>>
                       ELSE IF Unresolved(sql)
                       THEN /\ errors' = Inc(errors)
                            /\ UNCHANGED <<wpc, wjob, fatal>>
                       ELSE /\ wpc' = [wpc EXCEPT ![k] = "exec"]
                            /\ wjob' = [wjob EXCEPT ![k] = job]
                            /\ UNCHANGED <<errors, fatal>>
          ELSE /\ ch.closed
               /\ wpc' = [wpc EXCEPT ![k] = "done"]
               /\ wg' = [wg EXCEPT ![c] = wg[c] - 1]
               /\ UNCHANGED <<dbJobs, errors, wjob, fatal>>
  /\ werr' = [werr EXCEPT ![k] = NoError]
  /\ UNCHANGED <<config, mutex, timeOuts, cpc, dbList, dbName, i, qi, pgVersions, dbPool,
                 toClose, conns, wrows, metricsCh, pure>>

\* const queryCanceled = pq.ErrorCode("57014")
queryCanceled == "57014"

\* the errors d.db.Query may return: a *pq.Error with its code and message
\* (a sequence of words), or an error of another type (a lost connection, a
\* closed pool), which has a message and no code
MsgWords == {"canceling", "statement", "timeout"}
Messages ==
  UNION { [1..n -> MsgWords] : n \in 0..MaxMsg }
    \cup { <<"canceling", "statement", "due", "to", "statement", "timeout">>,
           <<"canceling", "statement", "due", "to", "user", "request">>,
           <<"relation", "does", "not", "exist">> }
ErrorCodes == {queryCanceled, "42P01", "57P01"}
DriverErrors ==
  { [kind |-> "pq", code |-> code, msg |-> msg] : code \in ErrorCodes, msg \in Messages }
    \cup { [kind |-> "other", code |-> "", msg |-> msg] : msg \in Messages }

\* strings.Contains, on sequences of words
Contains(str, substr) ==
  \E from \in 1..(Len(str) + 1) :
    /\ from + Len(substr) - 1 <= Len(str)
    /\ SubSeq(str, from, from + Len(substr) - 1) = substr

\* err.(*pq.Error) on an error of another type: the runtime panics, the call
\* returns no error value
AssertPanic == "panic: interface conversion: error is not *pq.Error"

\* Db.Exec when d.db.Query has failed with err
DbExec(err) ==
  IF err.kind # "pq" THEN AssertPanic
  ELSE IF err.code = queryCanceled /\ Contains(err.msg, <<"statement", "timeout">>)
    THEN ErrQueryTimeout
  ELSE QueryError

\* what conn.Exec may do for a SQL text: return rows, return
\* db.ErrQueryTimeout or another error, or panic
ExecResults(sql) ==
  { [err |-> NoError, rows |-> rows] : rows \in RowSets(sql) }
    \cup { [err |-> DbExec(e), rows |-> <<>>] : e \in DriverErrors }

\* (mutant: every failure is taken for a statement timeout)
IsTimeoutAny(err) == TRUE

\* err == db.ErrQueryTimeout
IsTimeout(err) == err = ErrQueryTimeout

\* rows, err := conn.Exec(sql); if err != nil, a statement timeout is counted
\* as a timeout before it is counted as an error, and any other failure is
\* counted as an error and the job abandoned; a panic of conn.Exec in the
\* worker's goroutine ends the process
Exec(k) ==
  /\ ~fatal
  /\ wpc[k] = "exec"
  /\ conns[k].st = "open"
  /\ \E res \in ExecResults(Query(wjob[k].Query.VerSQL, wjob[k].pgVersion)) :
       IF res.err = AssertPanic
         THEN /\ fatal' = TRUE
              /\ UNCHANGED <<timeOuts, errors, work>>
         ELSE
       /\ werr' = [werr EXCEPT ![k] = res.err]
       /\ wrows' = [wrows EXCEPT ![k] = res.rows]
       /\ UNCHANGED fatal
       /\ IF res.err # NoError
            THEN IF IsTimeout(res.err)
              THEN /\ timeOuts' = Inc(timeOuts)
                   /\ wpc' = [wpc EXCEPT ![k] = "timedOut"]
                   /\ UNCHANGED <<errors, wjob>>
              ELSE /\ errors' = Inc(errors)
                   /\ wpc' = [wpc EXCEPT ![k] = "recv"]
                   /\ wjob' = [wjob EXCEPT ![k] = NoJob]
                   /\ UNCHANGED timeOuts
            ELSE IF res.rows = <<>>
              THEN /\ wpc' = [wpc EXCEPT ![k] = "recv"]
                   /\ wjob' = [wjob EXCEPT ![k] = NoJob]
                   /\ UNCHANGED <<timeOuts, errors>>
              ELSE /\ wpc' = [wpc EXCEPT ![k] = "rows"]
                   /\ UNCHANGED <<timeOuts, errors, wjob>>
  /\ UNCHANGED <<config, mutex, orch, conns, metricsCh, pure>>

\* (mutant: a timeout is not counted as an error)
TimedOutNoError(k) ==
  /\ ~fatal
  /\ wpc[k] = "timedOut"
  /\ wpc' = [wpc EXCEPT ![k] = "recv"]
  /\ wjob' = [wjob EXCEPT ![k] = NoJob]
  /\ UNCHANGED <<config, mutex, timeOuts, errors, orch, conns, wrows, werr, metricsCh, fatal, pure>>

\* after the timeout was counted: the error is counted and the job abandoned
TimedOut(k) ==
  /\ ~fatal
  /\ wpc[k] = "timedOut"
  /\ errors' = Inc(errors)
  /\ wpc' = [wpc EXCEPT ![k] = "recv"]
  /\ wjob' = [wjob EXCEPT ![k] = NoJob]
  /\ UNCHANGED <<config, mutex, timeOuts, orch, conns, wrows, werr, metricsCh, fatal, pure>>

RECURSIVE IncBy(_, _)
IncBy(x, n) == IF n = 0 THEN x ELSE IncBy(Inc(x), n - 1)

\* one iteration of the loop over rows; after the last row, or when the job
\* is abandoned, the worker is back at the head of the loop over jobs
Rows(k) ==
  /\ ~fatal
  /\ wpc[k] = "rows"
  /\ \E o \in ProcessRow(k[2], wjob[k], Head(wrows[k])) :
       /\ metricsCh' = [metricsCh EXCEPT ![k[1]] = BagAddAll(metricsCh[k[1]], o.emit)]
       /\ errors' = IncBy(errors, o.errs)
       /\ IF o.abandon \/ Len(wrows[k]) = 1
            THEN /\ wpc' = [wpc EXCEPT ![k] = "recv"]
                 /\ wjob' = [wjob EXCEPT ![k] = NoJob]
                 /\ wrows' = [wrows EXCEPT ![k] = <<>>]
            ELSE /\ wrows' = [wrows EXCEPT ![k] = Tail(wrows[k])]
                 /\ UNCHANGED <<wpc, wjob>>
  /\ UNCHANGED <<config, mutex, timeOuts, orch, conns, werr, fatal, pure>>

\* ------------------------------------------------------------- specification
\* log.Fatalf ends the process: no action is enabled once fatal is set
Next ==
  \/ \E c \in Callers :
       \/ Lock(c) \/ Reset(c) \/ DbLoop(c) \/ Provision(c) \/ Push(c)
       \/ Wait(c) \/ CloseConn(c) \/ Report(c) \/ Unlock(c)
  \/ \E k \in Conns : Recv(k) \/ Exec(k) \/ TimedOut(k) \/ Rows(k)

Spec == Init /\ [][Next]_vars

SpecConcurrent == InitConcurrent /\ [][Next]_vars

\* the Go scheduler runs a goroutine that can take a step: the caller of
\* Collect and the workers go on as long as one of them is not blocked
SpecFair == Spec /\ WF_vars(Next)

\* one goroutine calls Collect on the row-processing configuration
InitRows ==
  /\ CollectorInit({1}, RowConfigs)
  /\ arg = <<>>
  /\ ret = <<>>

SpecRows == InitRows /\ [][Next]_vars

\* ------------------------------------------------------------- pure functions
\* no call of Collect is running while a pure function is checked
NoCollector == CollectorInit({}, {CHOOSE cfg \in Configs : TRUE})

Pending == [done |-> FALSE, val |-> ""]

\* the inputs of VerSQLs.Query
VerBounds == {0, 90400, 100000}
SQLTexts == {"A", "B"}
Variants == { VerSQL(sql, min, max) : sql \in SQLTexts, min \in VerBounds, max \in VerBounds }
VariantLists == UNION { [1..n -> Variants] : n \in 0..MaxVariants }
Versions == {NoVersion, 0, 80000, 90400, 90500, 100000, 100500}

InitQuery ==
  /\ NoCollector
  /\ arg \in [v : VariantLists, version : Versions]
  /\ ret = Pending

CallQuery ==
  /\ ~ret.done
  /\ ret' = [done |-> TRUE, val |-> Query(arg.v, arg.version)]
  /\ UNCHANGED <<config, mutex, timeOuts, errors, orch, conns, work, metricsCh, fatal, arg>>

SpecQuery == InitQuery /\ [][CallQuery]_vars

\* the inputs of ToFloat64: integers, floats, timestamps with their
\* nanoseconds, booleans, byte buffers and texts, nil, and shapes outside the
\* type switch
RawTexts == {"4096", "100", "7", "1", "0", "42.5", "0.5", "abc", "", "4 2"}
RawValues ==
  { IntV(n) : n \in (0 - MaxRaw)..MaxRaw }
    \cup { [k |-> "float64", v |-> n] : n \in (0 - MaxRaw)..MaxRaw }
    \cup { [k |-> "time", v |-> sec, nsec |-> ns] : sec \in 0..MaxRaw, ns \in {0, 999} }
    \cup { BoolV(b) : b \in BOOLEAN }
    \cup { BytesV(txt) : txt \in RawTexts } \cup { StrV(txt) : txt \in RawTexts }
    \cup { NilV, OtherV, [k |-> "int32", v |-> 1] }

InitFloat ==
  /\ NoCollector
  /\ arg \in [t : RawValues]
  /\ ret = Pending

CallToFloat64 ==
  /\ ~ret.done
  /\ ret' = [done |-> TRUE, val |-> ToFloat64(arg.t)]
  /\ UNCHANGED <<config, mutex, timeOuts, errors, orch, conns, work, metricsCh, fatal, arg>>

SpecFloat == InitFloat /\ [][CallToFloat64]_vars

\* VerSQLs.UnmarshalYAML: the lists a load may build from the `query` value
\* of a query file.  A text gives one entry without bounds; a map from
\* version ranges to texts is ranged over, in an order the runtime chooses
\* anew at every range over a map, and each key appends one entry
UnmarshalYAML(val) ==
  IF val.kind = "string" THEN { <<VerSQL(val.sql, 0, 0)>> }
  ELSE { [j \in 1..Len(order) |->
            VerSQL(val.map[order[j]], order[j][1], order[j][2])] :
           order \in Permutations(DOMAIN val.map) }

\* the `query` values of a query file: a text, or a map with at most
\* MaxVariants version ranges
QueryValues ==
  { [kind |-> "string", sql |-> sql, map |-> EmptyFn] : sql \in SQLTexts }
    \cup { [kind |-> "map", sql |-> "", map |-> m] :
             m \in UNION { [K -> SQLTexts] :
                             K \in { S \in SUBSET (VerBounds \X VerBounds) :
                                       Cardinality(S) <= MaxVariants } } }

Loads == [done |-> FALSE, val |-> <<>>]

InitLoad ==
  /\ NoCollector
  /\ arg \in [val : QueryValues, version : Versions]
  /\ ret = Loads

\* one load of the configuration followed by the resolution of the query for
\* the version; the file is loaded twice
LoadAndQuery ==
  /\ ~ret.done
  /\ \E v \in UnmarshalYAML(arg.val) :
       ret' = [done |-> Len(ret.val) = 1, val |-> Append(ret.val, Query(v, arg.version))]
  /\ UNCHANGED <<config, mutex, timeOuts, errors, orch, conns, work, metricsCh, fatal, arg>>

SpecLoad == InitLoad /\ [][LoadAndQuery]_vars

\* the inputs of parseVersion
VerChars == {"0", "1", "5", ".", "x"}
VersionStrings ==
  { str \in UNION { [1..n -> VerChars] : n \in 0..MaxVerLen } :
      Len(SplitDots(str)[1]) <= MaxMajorLen }

InitVersion ==
  /\ NoCollector
  /\ arg \in [str : VersionStrings]
  /\ ret = Pending

CallParseVersion ==
  /\ ~ret.done
  /\ ret' = [done |-> TRUE, val |-> parseVersion(arg.str)]
  /\ UNCHANGED <<config, mutex, timeOuts, errors, orch, conns, work, metricsCh, fatal, arg>>

SpecVersion == InitVersion /\ [][CallParseVersion]_vars

InitExec ==
  /\ NoCollector
  /\ arg \in [err : DriverErrors]
  /\ ret = Pending

CallExec ==
  /\ ~ret.done
  /\ ret' = [done |-> TRUE, val |-> DbExec(arg.err)]
  /\ UNCHANGED <<config, mutex, timeOuts, errors, orch, conns, work, metricsCh, fatal, arg>>

SpecExec == InitExec /\ [][CallExec]_vars

\* the inputs of mergeLabels
LabelKeys == {"env", "shard", "db"}
LabelValues == {"prod", "staging", "1"}
LabelMaps ==
  UNION { [K -> LabelValues] : K \in { S \in SUBSET LabelKeys : Cardinality(S) <= MaxLabels } }

InitMerge ==
  /\ NoCollector
  /\ arg \in [a : LabelMaps, b : LabelMaps]
  /\ ret = Pending

CallMerge ==
  /\ ~ret.done
  /\ ret' = [done |-> TRUE, val |-> mergeLabels(arg.a, arg.b),
             after |-> mergeLabelsHeap(<<arg.a, arg.b>>, 1, 2)]
  /\ UNCHANGED <<config, mutex, timeOuts, errors, orch, conns, work, metricsCh, fatal, arg>>

SpecMerge == InitMerge /\ [][CallMerge]_vars


\* ------------------------------------------------------------- claims
InCycle(c) == cpc[c] \notin {"idle", "absent"}

\* the range over the targets is over
LoopLeft(c) == cpc[c] \in {"wait", "closing", "report", "unlock"}

\* the indexes of the target's adapters that were stored in the pool
Provisioned(c, db) ==
  IF db \in DOMAIN dbPool[c] THEN { n \in DOMAIN dbPool[c][db] : dbPool[c][db][n] } ELSE {}

\* every configured query of the target was pushed and its queue closed
Dispatched(c, db) ==
  /\ db \in DOMAIN dbJobs[c]
  /\ dbJobs[c][db].closed
  /\ dbJobs[c][db].sent = Len(config[db].queries)

InternalNames ==
  {"last_scrape_duration_seconds", "last_scrape_timeouts", "last_scrape_errors"}

InternalEmitted(c) ==
  \A name \in InternalNames :
    \E m \in DOMAIN metricsCh[c] : m.ns = "pg_exporter" /\ m.name = name

\* C1: at most one call of Collect is between taking the lock and releasing
\* it; only that call has reset counters, adapters, workers or a pool; and it
\* releases the lock only after its three internal metrics were emitted.
C1_OneCycleAtATime ==
  \A c \in Callers :
    /\ InCycle(c) <=> c \in mutex
    /\ InCycle(c) =>
         \A d \in Callers \ {c} :
           /\ ~InCycle(d)
           /\ dbPool[d] = EmptyFn /\ dbJobs[d] = EmptyFn
           /\ \A k \in Conns : k[1] = d => conns[k].st = "none" /\ wpc[k] = "none"
    /\ cpc[c] = "unlock" => InternalEmitted(c)

\* a call holds the lock and has not yet reset the counters an earlier cycle
\* left behind, while the other caller is outside Collect
C1_Witness ==
  cpc[1] = "idle" /\ cpc[2] = "locked" /\ errors > 0 /\ timeOuts > 0

\* C2: every Collect call returns: once the range over the targets is left,
\* no started worker is reading a job queue that is never closed (wg.Wait
\* would never return).
C2_CollectReturns ==
  \A c \in Callers : \A k \in Conns :
    (LoopLeft(c) /\ k[1] = c /\ wpc[k] # "none") => dbJobs[c][k[2]].closed

\* C3: when the range over the targets is left and a visited target has no
\* provisioned adapter, that target has contributed no metric, an error was
\* counted, and every other target was visited and, having an adapter, has all
\* its queries dispatched.
C3_FailedTargetIsolated ==
  \A c \in Callers : \A t \in DbNames :
    (LoopLeft(c) /\ t \in DOMAIN dbPool[c] /\ Provisioned(c, t) = {}) =>
      /\ \A m \in DOMAIN metricsCh[c] : m.src # t
      /\ errors >= 1
      /\ \A o \in DbNames \ {t} :
           /\ o \in DOMAIN dbPool[c]
           /\ Provisioned(c, o) # {} => Dispatched(c, o)

\* creation of an adapter of the target failed after at least one was provisioned
CreationFailedLater(c, t) ==
  /\ Provisioned(c, t) # {}
  /\ \E n \in DOMAIN dbPool[c][t] :
       /\ n = Cardinality(Provisioned(c, t))
       /\ conns[<<c, t, n>>].st = "none"

\* C4: when creation of a later adapter of a target fails, the cycle proceeds
\* with the adapters that succeeded: all queries of the target are pushed and
\* its queue is closed.
C4_PartialPoolDispatched ==
  \A c \in Callers : \A t \in DbNames :
    (LoopLeft(c) /\ CreationFailedLater(c, t)) => Dispatched(c, t)

\* an adapter of the target was opened but not stored in the pool: detecting
\* the version or applying the statement timeout failed on it
SetupFailed(c, t) ==
  /\ t \in DOMAIN dbPool[c]
  /\ \E n \in DOMAIN dbPool[c][t] : ~dbPool[c][t][n] /\ conns[<<c, t, n>>].st = "open"

\* C5: when version detection or the statement timeout fails for one target,
\* an error is counted and every other target is visited and, having an
\* adapter, has all its queries dispatched.
C5_SetupFailureIsolated ==
  \A c \in Callers : \A t \in DbNames :
    (LoopLeft(c) /\ SetupFailed(c, t)) =>
      /\ errors >= 1
      /\ \A o \in DbNames \ {t} :
           /\ o \in DOMAIN dbPool[c]
           /\ Provisioned(c, o) # {} => Dispatched(c, o)

\* the claim's range test, and the indexes of the entries it admits
InRange(V, e) == (V >= e.MinVer \/ e.MinVer = 0) /\ (V < e.MaxVer \/ e.MaxVer = 0)
Matching(v, V) == { j \in 1..Len(v) : InRange(V, v[j]) }
Least(S) == CHOOSE j \in S : \A l \in S : j <= l
ExampleVariants == <<VerSQL("A", 100000, 0), VerSQL("B", 90400, 100000)>>

\* C6: for a version other than the sentinel, Query returns the SQL of the
\* first entry in list order whose range [min, max) holds the version (0 is
\* unbounded), the sole entry's SQL for one entry unbounded on both sides, and
\* the empty string when no entry matches; the example list gives B for 90500,
\* A for 100500 and the empty string for 80000.
C6_QueryFirstMatch ==
  (ret.done /\ arg.version # NoVersion) =>
    /\ Matching(arg.v, arg.version) = {} => ret.val = ""
    /\ Matching(arg.v, arg.version) # {} =>
         ret.val = arg.v[Least(Matching(arg.v, arg.version))].SQL
    /\ (Len(arg.v) = 1 /\ arg.v[1].MinVer = 0 /\ arg.v[1].MaxVer = 0) =>
         ret.val = arg.v[1].SQL
    /\ arg.v = ExampleVariants =>
         /\ arg.version = 90500 => ret.val = "B"
         /\ arg.version = 100500 => ret.val = "A"
         /\ arg.version = 80000 => ret.val = ""

\* the second entry of the example list is the first match
C6_Witness ==
  ret.done /\ arg.v = ExampleVariants /\ arg.version = 90500 /\ ret.val = "B"

\* C7: for the no-version sentinel Query returns the SQL of the first entry
\* of the list, whatever the bounds of the entries.
C7_NoVersionFirstEntry ==
  (ret.done /\ arg.version = NoVersion /\ arg.v # <<>>) => ret.val = arg.v[1].SQL

\* the first entry's range is empty and the second entry is unbounded
C7_Witness ==
  /\ ret.done /\ arg.version = NoVersion
  /\ arg.v = <<VerSQL("A", 100000, 90400), VerSQL("B", 0, 0)>>
  /\ ret.val = "A"

\* the head of the target's job queue is taken in this step
Dequeued(c, db) ==
  /\ db \in DOMAIN dbJobs[c] /\ db \in DOMAIN dbJobs'[c]
  /\ dbJobs[c][db].buf # <<>>
  /\ dbJobs'[c][db].buf = Tail(dbJobs[c][db].buf)

\* C8: a step that dequeues a job whose SQL resolves to the empty string
\* counts exactly one error and no timeout, emits nothing, touches no adapter
\* and leaves every worker where it was: the dequeuing worker is back at the
\* head of its loop over the jobs, with no job in hand.
C8_UnresolvedJobSkipped ==
  [][\A c \in Callers : \A db \in DbNames :
       (Dequeued(c, db)
          /\ Query(Head(dbJobs[c][db].buf).Query.VerSQL,
                   Head(dbJobs[c][db].buf).pgVersion) = "") =>
         /\ errors' = errors + 1
         /\ timeOuts' = timeOuts
         /\ metricsCh' = metricsCh
         /\ conns' = conns
         /\ wpc' = wpc /\ wjob' = wjob /\ wrows' = wrows]_vars

\* the version-keyed query of target a was unresolved and counted once, and
\* the next job of the same queue was processed and has emitted a metric
C8_Witness ==
  \E c \in Callers :
    /\ cpc[c] = "wait" /\ wg[c] = 0
    /\ VersionOf(pgVersions[c], "h1:5432") = 80000
    /\ "a" \in DOMAIN dbJobs[c] /\ dbJobs[c]["a"].sent = 2
    /\ errors = 1 /\ timeOuts = 0
    /\ \E m \in DOMAIN metricsCh[c] : m.src = "a" /\ m.ns = "pg_settings"

\* C9: when conn.Exec fails with the statement-timeout failure the worker
\* counts one timeout and then one error; when it fails otherwise it counts
\* one error and no timeout; either way nothing is emitted, the job is
\* abandoned and the worker is back at the head of its loop over the jobs.
C9_ExecFailureCounted ==
  [][\A k \in Conns :
       /\ (wpc[k] = "exec" /\ wpc'[k] # "exec" /\ werr'[k] = ErrQueryTimeout) =>
            /\ timeOuts' = timeOuts + 1 /\ errors' = errors
            /\ metricsCh' = metricsCh
            /\ wpc'[k] = "timedOut"
       /\ (wpc[k] = "timedOut" /\ wpc'[k] # "timedOut") =>
            /\ werr[k] = ErrQueryTimeout
            /\ errors' = errors + 1 /\ timeOuts' = timeOuts
            /\ metricsCh' = metricsCh
            /\ wpc'[k] = "recv" /\ wjob'[k] = NoJob /\ wrows'[k] = <<>>
       /\ (wpc[k] = "exec" /\ wpc'[k] # "exec" /\ werr'[k] = QueryError) =>
            /\ errors' = errors + 1 /\ timeOuts' = timeOuts
            /\ metricsCh' = metricsCh
            /\ wpc'[k] = "recv" /\ wjob'[k] = NoJob /\ wrows'[k] = <<>>]_vars

\* a worker whose Exec timed out has counted the timeout and the error and is
\* back at the head of its loop, while another job has failed otherwise
C9_Witness ==
  \E k \in Conns :
    /\ wpc[k] = "recv" /\ werr[k] = ErrQueryTimeout
    /\ timeOuts = 1 /\ errors = 2
    /\ metricsCh[k[1]] = EmptyFn

\* C10: mergeLabels(static, dynamic) has the union of the key sets as its key
\* set, dynamic's value for every key of dynamic and static's value for the
\* keys only in static.
C10_DynamicLabelsWin ==
  ret.done =>
    /\ DOMAIN ret.val = DOMAIN arg.a \cup DOMAIN arg.b
    /\ \A id \in DOMAIN arg.b : ret.val[id] = arg.b[id]
    /\ \A id \in DOMAIN arg.a \ DOMAIN arg.b : ret.val[id] = arg.a[id]

\* static {env: prod} merged with dynamic {env: staging, shard: 1}
C10_Witness ==
  /\ ret.done
  /\ arg.a = [id \in {"env"} |-> "prod"]
  /\ arg.b = [id \in {"env", "shard"} |-> IF id = "env" THEN "staging" ELSE "1"]
  /\ ret.val = arg.b

\* ------------------------------------------------------------- rows
\* worker k runs one iteration of its loop over the rows in this step
RowStep(k) == wpc[k] = "rows" /\ wrows'[k] # wrows[k]

CountIn(b, m) == IF m \in DOMAIN b THEN b[m] ELSE 0

\* the metrics the consumer of the call's channel receives in this step
EmittedNow(c) ==
  [m \in { x \in DOMAIN metricsCh'[c] : CountIn(metricsCh'[c], x) > CountIn(metricsCh[c], x) } |->
     CountIn(metricsCh'[c], m) - CountIn(metricsCh[c], m)]

\* how many of them carry the name
EmittedNamed(c, name) ==
  BagSize([m \in { x \in DOMAIN EmittedNow(c) : x.name = name } |-> EmittedNow(c)[m]])

\* the label columns of the row that do not convert to a string
FailedLabels(job, row) ==
  { l \in DOMAIN job.Query.Metrics :
      job.Query.Metrics[l] = Label /\ ~ToString(Cell(row, l)).ok }

IsValueUsage(job, name) ==
  name \in DOMAIN job.Query.Metrics /\ job.Query.Metrics[name] \in {Counter, Gauge}

\* the columns of the row configured as Counter or Gauge
ValueColumns(job, row) == { col \in DOMAIN row : IsValueUsage(job, col) }

\* no conversion of the row fails apart from its label columns
RestConverts(job, row) ==
  IF job.Query.NameColumn # ""
    THEN LET n == ToString(Cell(row, job.Query.NameColumn))
         IN /\ n.ok
            /\ IsValueUsage(job, n.str) => ~ToFloat64(Cell(row, job.Query.ValueColumn)).err
    ELSE \A col \in ValueColumns(job, row) : ~ToFloat64(row[col]).err

\* no other worker, no queue and no adapter is touched in this step
OthersUntouched(k) ==
  /\ dbJobs' = dbJobs /\ conns' = conns /\ cpc' = cpc
  /\ \A j \in Conns \ {k} : wpc'[j] = wpc[j] /\ wjob'[j] = wjob[j] /\ wrows'[j] = wrows[j]

\* C11: a row whose name column does not convert to a string counts one error
\* for the name, emits nothing (what was emitted stays emitted), drops the
\* remaining rows of the job and leaves the worker at the head of its loop
\* over the jobs; no other worker, queue or adapter is touched.
C11_BadNameAbandonsJob ==
  [][\A k \in Conns :
       (RowStep(k) /\ wjob[k].Query.NameColumn # ""
          /\ ~ToString(Cell(Head(wrows[k]), wjob[k].Query.NameColumn)).ok) =>
         /\ metricsCh' = metricsCh
         /\ errors' = errors + 1 + Cardinality(FailedLabels(wjob[k], Head(wrows[k])))
         /\ timeOuts' = timeOuts
         /\ wrows'[k] = <<>> /\ wpc'[k] = "recv"
         /\ OthersUntouched(k)]_vars

\* target a is visited first; its name/value job emitted work_mem, failed on
\* the name of its second row and never emitted max_connections, and the same
\* worker has the next job of the queue in hand
C11_Witness ==
  /\ "b" \notin DOMAIN dbPool[1]
  /\ wjob[<<1, "a", 0>>].Query.Name = "pg_stat" /\ wpc[<<1, "a", 0>>] = "exec"
  /\ errors = 1 /\ timeOuts = 0
  /\ \E m \in DOMAIN metricsCh[1] : m.name = "work_mem"
  /\ \A m \in DOMAIN metricsCh[1] : m.name # "max_connections"

\* C12: a row with label columns that do not convert to a string counts one
\* error for each of them and is processed all the same: every metric of the
\* row carries those labels with the empty string, and when nothing else of
\* the row fails to convert, its metrics are emitted and the loop over the
\* rows goes on with the next row.
C12_BadLabelKeepsRow ==
  [][\A k \in Conns :
       LET job == wjob[k]
           row == Head(wrows[k])
           failed == FailedLabels(job, row)
           E == EmittedNow(k[1])
       IN (RowStep(k) /\ failed # {}) =>
            /\ errors' >= errors + Cardinality(failed)
            /\ \A m \in DOMAIN E :
                 \A l \in failed : l \in DOMAIN m.labels /\ m.labels[l] = ""
            /\ RestConverts(job, row) =>
                 /\ errors' = errors + Cardinality(failed)
                 /\ IF job.Query.NameColumn # ""
                      THEN EmittedNamed(k[1], ToString(row[job.Query.NameColumn]).str)
                             = IF IsValueUsage(job, ToString(row[job.Query.NameColumn]).str)
                                 THEN 1 ELSE 0
                      ELSE \A col \in ValueColumns(job, row) : EmittedNamed(k[1], col) = 1
                 /\ wrows'[k] = Tail(wrows[k])
                 /\ wpc'[k] = IF Len(wrows[k]) > 1 THEN "rows" ELSE "recv"]_vars

\* the column-mode job has emitted the lag of a row whose slot name did not
\* convert, with the empty label, and the lag of the row after it
C12_Witness ==
  /\ errors >= 1
  /\ \E m \in DOMAIN metricsCh[1] :
       m.ns = "pg_stat" /\ m.name = "lag" /\ m.labels["slot_name"] = ""
  /\ \E m \in DOMAIN metricsCh[1] :
       m.ns = "pg_stat" /\ m.name = "lag" /\ m.labels["slot_name"] = "s1"
\* the metric createMetric builds for a name of the job and a raw value
Expected(src, job, row, name, raw) ==
  [src |-> src, ns |-> job.Query.Name, name |-> name,
   kind |-> IF job.Query.Metrics[name] = Counter THEN "counter" ELSE "gauge",
   labels |-> [l \in DOMAIN job.dbLabels \cup LabelColumns(job) |->
                 IF l \in LabelColumns(job) THEN ToString(Cell(row, l)).str
                 ELSE job.dbLabels[l]],
   value |-> ToFloat64(raw).val]

\* C13 as claimed: in name/value mode every row of an executed job gives
\* exactly one metric, named by the row's name column and valued by its value
\* column (rows whose name does not convert are left to C11).
C13_OneMetricPerRow ==
  [][\A k \in Conns :
       LET job == wjob[k]
           row == Head(wrows[k])
       IN (RowStep(k) /\ job.Query.NameColumn # ""
             /\ ToString(Cell(row, job.Query.NameColumn)).ok) =>
            /\ BagSize(EmittedNow(k[1])) = 1
            /\ \A m \in DOMAIN EmittedNow(k[1]) :
                 /\ m.name = ToString(Cell(row, job.Query.NameColumn)).str
                 /\ m.value = ToFloat64(Cell(row, job.Query.ValueColumn)).val]_vars

\* C13 amended: in name/value mode a row whose name converts gives exactly
\* one metric, named by the name column and valued by the value column, when
\* the name is configured as Counter or Gauge and the value converts; it gives
\* nothing and counts nothing when the name is not so configured; and when the
\* value does not convert it gives nothing, counts one error and the rest of
\* the job is dropped.  The rows {work_mem, 4096} and {max_connections, 100}
\* give a gauge work_mem of 4096 and a counter max_connections of 100.
C13_OneMetricPerConfiguredRow ==
  [][\A k \in Conns :
       LET job == wjob[k]
           row == Head(wrows[k])
           n == ToString(Cell(row, job.Query.NameColumn))
           raw == Cell(row, job.Query.ValueColumn)
           E == EmittedNow(k[1])
           lerrs == Cardinality(FailedLabels(job, row))
       IN (RowStep(k) /\ job.Query.NameColumn # "" /\ n.ok) =>
            /\ (IsValueUsage(job, n.str) /\ ~ToFloat64(raw).err) =>
                 /\ DOMAIN E = {Expected(k[2], job, row, n.str, raw)}
                 /\ BagSize(E) = 1
                 /\ errors' = errors + lerrs
                 /\ wrows'[k] = Tail(wrows[k])
            /\ ~IsValueUsage(job, n.str) =>
                 /\ metricsCh' = metricsCh
                 /\ errors' = errors + lerrs
                 /\ wrows'[k] = Tail(wrows[k])
            /\ (IsValueUsage(job, n.str) /\ ToFloat64(raw).err) =>
                 /\ metricsCh' = metricsCh
                 /\ errors' = errors + lerrs + 1
                 /\ wrows'[k] = <<>> /\ wpc'[k] = "recv"
            /\ row = SettingRowA =>
                 \A m \in DOMAIN E :
                   m.name = "work_mem" /\ m.kind = "gauge" /\ m.value = Num(4096)
            /\ row = SettingRowB =>
                 \A m \in DOMAIN E :
                   m.name = "max_connections" /\ m.kind = "counter" /\ m.value = Num(100)]_vars

\* the claim's two rows gave the two metrics, and nothing else came from the
\* name/value job of target a
C13_Witness ==
  /\ wjob[<<1, "a", 0>>].Query.Name = "pg_stat"
  /\ { m \in DOMAIN metricsCh[1] : m.src = "a" } =
       { Expected("a", [Query |-> QueryNames, dbLabels |-> [l \in {"env"} |-> "prod"],
                        pgVersion |-> NoVersion], SettingRowA, "work_mem", BytesV("4096")),
         Expected("a", [Query |-> QueryNames, dbLabels |-> [l \in {"env"} |-> "prod"],
                        pgVersion |-> NoVersion], SettingRowB, "max_connections",
                  BytesV("100")) }
  /\ \E m \in DOMAIN metricsCh[1] : m.src = "a" /\ m.value = Num(4096)
  /\ errors = 0

\* C14 as claimed: in column mode every row gives exactly one metric for each
\* of its columns configured as Counter or Gauge and nothing for the others,
\* and counts no error apart from label columns that do not convert.
C14_OneMetricPerValueColumn ==
  [][\A k \in Conns :
       LET job == wjob[k]
           row == Head(wrows[k])
       IN (RowStep(k) /\ job.Query.NameColumn = "") =>
            /\ \A col \in ValueColumns(job, row) : EmittedNamed(k[1], col) = 1
            /\ BagSize(EmittedNow(k[1])) = Cardinality(ValueColumns(job, row))
            /\ errors' = errors + Cardinality(FailedLabels(job, row))]_vars

\* C14 amended: in column mode a row whose Counter and Gauge columns all
\* convert gives exactly one metric for each of them, nothing for its Label,
\* Discard and unconfigured columns, and counts no error apart from label
\* columns that do not convert; a row with a Counter or Gauge column that does
\* not convert counts one error, gives at most one metric for each of the
\* columns that convert and none for the others, and the rest of the job is
\* dropped.
C14_ValueColumnsThatConvert ==
  [][\A k \in Conns :
       LET job == wjob[k]
           row == Head(wrows[k])
           E == EmittedNow(k[1])
           lerrs == Cardinality(FailedLabels(job, row))
           good == { col \in ValueColumns(job, row) : ~ToFloat64(row[col]).err }
       IN (RowStep(k) /\ job.Query.NameColumn = "") =>
            /\ DOMAIN E \subseteq { Expected(k[2], job, row, col, row[col]) : col \in good }
            /\ \A m \in DOMAIN E : E[m] = 1
            /\ good = ValueColumns(job, row) =>
                 /\ BagSize(E) = Cardinality(good)
                 /\ errors' = errors + lerrs
                 /\ wrows'[k] = Tail(wrows[k])
            /\ good # ValueColumns(job, row) =>
                 /\ errors' = errors + lerrs + 1
                 /\ wrows'[k] = <<>> /\ wpc'[k] = "recv"]_vars

\* a row of pg_stat gave its gauge and its counter, labelled with the slot
\* name, and nothing for its pad and extra columns
C14_Witness ==
  /\ \E m \in DOMAIN metricsCh[1] :
       /\ m.ns = "pg_stat" /\ m.name = "lag" /\ m.kind = "gauge" /\ m.value = Num(7)
       /\ m.labels = [l \in {"env", "slot_name"} |-> IF l = "env" THEN "prod" ELSE "s1"]
  /\ \E m \in DOMAIN metricsCh[1] :
       m.ns = "pg_stat" /\ m.name = "xacts" /\ m.kind = "counter" /\ m.value = Num(100)
  /\ \A m \in DOMAIN metricsCh[1] : m.name \notin {"pad", "extra", "slot_name"}
  /\ errors = 0
\* ------------------------------------------------------------- cycle
\* the value of an internal metric among the metrics a call has sent
Reported(c, name) ==
  { m.value : m \in { x \in DOMAIN metricsCh'[c] : x.ns = "pg_exporter" /\ x.name = name } }

\* C15: the step that starts a cycle sets both counters to zero whatever an
\* earlier cycle left in them; no other step lowers a counter; nothing is
\* counted once wg.Wait() has returned; and the internal metrics report the
\* counters as they then stand, so the values reported are the events counted
\* in this cycle alone.
C15_CountersPerCycle ==
  [][/\ (\A d \in Callers : cpc[d] # "locked") =>
          timeOuts' >= timeOuts /\ errors' >= errors
     /\ \A c \in Callers :
          /\ (cpc[c] = "locked" /\ cpc'[c] # "locked") => timeOuts' = 0 /\ errors' = 0
          /\ cpc[c] \in {"closing", "report", "unlock"} =>
               timeOuts' = timeOuts /\ errors' = errors
          /\ (cpc[c] = "report" /\ cpc'[c] = "unlock") =>
               /\ Reported(c, "last_scrape_timeouts") = {Num(timeOuts)}
               /\ Reported(c, "last_scrape_errors") = {Num(errors)}]_vars

\* a call has taken the lock and is about to start its cycle while the
\* counters still hold the timeout and the errors of the cycle before it
C15_Witness ==
  /\ cpc[1] = "locked" /\ mutex = {1}
  /\ dbPool[1] = EmptyFn /\ metricsCh[1] = EmptyFn
  /\ timeOuts >= 1 /\ errors > timeOuts

\* C16 as claimed: no adapter is closed before the three internal metrics of
\* the cycle were emitted.
C16_ReportedBeforeClosed ==
  \A k \in Conns : conns[k].closes > 0 => InternalEmitted(k[1])

\* the adapters stored in the call's pool
Pooled(c) ==
  { k \in Conns : k[1] = c /\ k[2] \in DOMAIN dbPool[c]
                    /\ k[3] \in DOMAIN dbPool[c][k[2]] /\ dbPool[c][k[2]][k[3]] }

\* C16 amended: the adapters are closed first and the internal metrics are
\* emitted afterwards: when an internal metric of a cycle has been emitted,
\* the closing loop is over and Close was invoked, once, on every adapter of
\* the pool.
C16_ClosedBeforeReported ==
  \A c \in Callers :
    (\E m \in DOMAIN metricsCh[c] : m.ns = "pg_exporter") =>
      /\ toClose[c] = {}
      /\ \A k \in Pooled(c) : conns[k].st = "closed" /\ conns[k].closes = 1

\* the cycle has closed two adapters and then emitted its internal metrics
C16_Witness ==
  /\ cpc[1] = "unlock" /\ InternalEmitted(1)
  /\ Cardinality({ k \in Pooled(1) : conns[k].closes = 1 }) >= 2

\* C17: a Close that fails does not end the process: the remaining adapters
\* are closed, the internal metrics emitted and the lock released.
C17_CloseFailureNonFatal ==
  [][(\E c \in Callers : cpc[c] = "closing") => fatal' = fatal]_vars

\* the instances of the configured targets
Instances == { config[db].Instance : db \in DbNames }

\* the jobs of a target that are in its queue or in a worker's hands
JobsOf(c, db) ==
  (IF db \in DOMAIN dbJobs[c]
     THEN { dbJobs[c][db].buf[j] : j \in 1..Len(dbJobs[c][db].buf) } ELSE {})
  \cup { wjob[k] : k \in { x \in Conns : x[1] = c /\ x[2] = db
                                           /\ wpc[x] \in {"exec", "timedOut", "rows"} } }

\* the adapters of an instance on which PgVersion was called
Detections(c, inst) ==
  { k \in Conns : k[1] = c /\ config[k[2]].Instance = inst /\ conns[k].detects > 0 }

\* C18: in a cycle PgVersion is called on at most one adapter of an
\* instance, and once on it, whatever the number of workers and of targets of
\* the instance, and every job of the instance carries the cached version.
C18_VersionOncePerInstance ==
  \A c \in Callers : \A inst \in Instances :
    /\ Cardinality(Detections(c, inst)) <= 1
    /\ \A k \in Detections(c, inst) : conns[k].detects = 1
    /\ \A db \in DbNames : config[db].Instance = inst =>
         \A job \in JobsOf(c, db) :
           inst \in DOMAIN pgVersions[c] /\ job.pgVersion = pgVersions[c][inst]

\* two targets that share an instance and both detect the version were
\* provisioned and dispatched, with one call of PgVersion, and a worker has a
\* job with the detected version in hand
C18_Witness ==
  /\ config["a"].Instance = config["b"].Instance
  /\ ~config["a"].SkipVersionDetection /\ ~config["b"].SkipVersionDetection
  /\ Pooled(1) = {<<1, "a", 0>>, <<1, "b", 0>>}
  /\ Cardinality(Detections(1, "h1:5432")) = 1
  /\ \E job \in JobsOf(1, "a") \cup JobsOf(1, "b") : job.pgVersion = 100500

\* C19: PgVersion is never called on an adapter of a target that skips
\* version detection, and every job of such a target carries the no-version
\* sentinel, also when a target that detects shares its instance.
C19_SkipCarriesNoVersion ==
  \A c \in Callers : \A db \in DbNames :
    config[db].SkipVersionDetection =>
      /\ \A k \in Conns : (k[1] = c /\ k[2] = db) => conns[k].detects = 0
      /\ \A job \in JobsOf(c, db) : job.pgVersion = NoVersion

\* C20: a worker is started on an adapter of a target with a statement
\* timeout only after SetStatementTimeout succeeded on that adapter, so no
\* SQL is executed on an adapter without its statement timeout.
C20_TimeoutBeforeWorker ==
  \A k \in Conns :
    (wpc[k] # "none" /\ config[k[2]].StatementTimeout # 0) =>
      conns[k].timeout /\ conns[k].st \in {"open", "closed"}

\* a worker is processing rows fetched over an adapter with the timeout set
C20_Witness ==
  \E k \in Conns :
    /\ config[k[2]].StatementTimeout # 0
    /\ wpc[k] = "rows" /\ conns[k].timeout
\* ------------------------------------------------------------- dispatch
\* C21: once the range over the targets is left, every query of a visited
\* target with a provisioned adapter was pushed as one job and the queue
\* closed; a target without a provisioned adapter was pushed no job; and once
\* wg.Wait() has returned every pushed job was taken from its queue.
C21_EveryQueryOneJob ==
  \A c \in Callers : \A t \in DOMAIN dbPool[c] :
    /\ (LoopLeft(c) /\ Provisioned(c, t) # {}) => Dispatched(c, t)
    /\ Provisioned(c, t) = {} => dbJobs[c][t].sent = 0
    /\ dbJobs[c][t].sent <= Len(config[t].queries)
    /\ cpc[c] \in {"closing", "report", "unlock"} => dbJobs[c][t].buf = <<>>
\* ------------------------------------------------------------- ToFloat64
\* the numbers the texts spell
TextNumber ==
  [txt \in {"4096", "100", "7", "1", "0", "42.5", "0.5"} |->
     CASE txt = "4096" -> Num(4096)
       [] txt = "100" -> Num(100)
       [] txt = "7" -> Num(7)
       [] txt = "1" -> Num(1)
       [] txt = "0" -> Num(0)
       [] txt = "42.5" -> Dec(42, <<5>>)
       [] txt = "0.5" -> Dec(0, <<5>>)]

\* C22: ToFloat64 gives 1 for true and 0 for false, the epoch seconds of a
\* timestamp, the number a byte buffer or text spells ("42.5" gives 42.5),
\* and not-a-number without an error for nil; a byte buffer or text that
\* spells no number, and a value of any other shape, gives an error.
C22_ToFloat64Shapes ==
  ret.done =>
    LET t == arg.t
        r == ret.val
    IN /\ t.k = "bool" => ~r.err /\ r.val = (IF t.v THEN Num(1) ELSE Num(0))
       /\ t.k = "time" => ~r.err /\ r.val = Num(t.v)
       /\ (t.k \in {"bytes", "string"} /\ t.v \in DOMAIN TextNumber) =>
            ~r.err /\ r.val = TextNumber[t.v]
       /\ (t.k \in {"bytes", "string"} /\ t.v \notin DOMAIN TextNumber) => r.err
       /\ t.k = "nil" => ~r.err /\ r.val.nan
       /\ t.k \notin {"int64", "float64", "time", "bool", "bytes", "string", "nil"} => r.err

\* the byte buffer "42.5" was converted to 42.5
C22_Witness ==
  /\ ret.done /\ arg.t = BytesV("42.5")
  /\ ~ret.val.err /\ ret.val.val = Dec(42, <<5>>)
\* ------------------------------------------------------------- ownership
\* the positions of a worker that has not ended
Running == {"recv", "exec", "timedOut", "rows"}

\* C23: one worker is started for each adapter stored in the pool and for no
\* other, a running worker's adapter is open, and Close is invoked on an
\* adapter only when every worker of the cycle, of every target, has ended.
C23_AdapterOwnedByOneWorker ==
  \A k \in Conns :
    /\ wpc[k] # "none" <=> k \in Pooled(k[1])
    /\ wpc[k] \in Running => conns[k].st = "open"
    /\ conns[k].closes > 0 =>
         \A j \in Conns : j[1] = k[1] => wpc[j] \in {"none", "done"}

\* both adapters of a target had a worker that executed and emitted; one
\* adapter is closed and the other still waits for its Close
C23_Witness ==
  \E k \in Conns, j \in Conns :
    /\ k[1] = j[1] /\ k[2] = j[2] /\ k # j
    /\ cpc[k[1]] = "closing"
    /\ wpc[k] = "done" /\ wpc[j] = "done"
    /\ conns[k].st = "closed" /\ conns[j].st = "open"
    /\ metricsCh[k[1]] # EmptyFn
\* ------------------------------------------------------------- reporting
\* how many internal metrics of the name the call has sent
InternalCount(c, name) ==
  BagSize([m \in { x \in DOMAIN metricsCh[c] : x.ns = "pg_exporter" /\ x.name = name } |->
             metricsCh[c][m]])

\* C24: every cycle emits its three internal metrics: never more than once
\* each, only when every worker of the cycle has ended (so no query metric
\* follows them) and with the counters' values as they stand; and a cycle
\* that has begun does emit them, whatever fails in it.
C24_InternalMetricsEveryCycle ==
  /\ [](\A c \in Callers : \A name \in InternalNames :
          /\ InternalCount(c, name) <= 1
          /\ InternalCount(c, name) = 1 =>
               /\ InternalEmitted(c)
               /\ \A k \in Conns : k[1] = c => wpc[k] \in {"none", "done"}
               /\ \E m \in DOMAIN metricsCh[c] :
                    m.name = "last_scrape_errors" /\ m.value = Num(errors)
               /\ \E m \in DOMAIN metricsCh[c] :
                    m.name = "last_scrape_timeouts" /\ m.value = Num(timeOuts))
  /\ \A c \in Callers : (cpc[c] = "locked") ~> InternalEmitted(c)
\* ------------------------------------------------------------- counters
\* the error events of this step: a failure while provisioning an adapter, a
\* job without a SQL variant, a failed Exec (after a timeout was counted, or
\* otherwise), and in a row each label that does not convert and the name or
\* value that does not
ErrorEvents ==
  Cardinality({ c \in Callers : cpc[c] = "workers" /\ cpc'[c] = "wait" })
  + Cardinality({ q \in Callers \X DbNames :
        Dequeued(q[1], q[2]) /\ \A j \in Conns : wpc'[j] = wpc[j] })
  + Cardinality({ k \in Conns :
        wpc[k] = "exec" /\ wpc'[k] = "recv" /\ werr'[k] = QueryError })
  + Cardinality({ k \in Conns : wpc[k] = "timedOut" /\ wpc'[k] = "recv" })
  + Cardinality({ f \in Conns \X UNION { DOMAIN wjob[k].Query.Metrics : k \in Conns } :
        RowStep(f[1]) /\ f[2] \in FailedLabels(wjob[f[1]], Head(wrows[f[1]])) })
  + Cardinality({ k \in Conns : RowStep(k) /\ ~RestConverts(wjob[k], Head(wrows[k])) })

\* the timeout events of this step
TimeoutEvents ==
  Cardinality({ k \in Conns : wpc[k] = "exec" /\ wpc'[k] = "timedOut" })

\* C25: whatever the interleaving of the caller and the workers, every step
\* but the reset adds to each counter exactly the events of that step, and
\* the internal metrics carry the counters' values: no increment is lost.
C25_NoIncrementLost ==
  [][/\ (\A c \in Callers : cpc[c] # "locked") =>
          /\ errors' = errors + ErrorEvents
          /\ timeOuts' = timeOuts + TimeoutEvents
     /\ \A c \in Callers : (cpc[c] = "report" /\ cpc'[c] = "unlock") =>
          /\ \E m \in DOMAIN metricsCh'[c] :
               m.name = "last_scrape_errors" /\ m.value = Num(errors)
          /\ \E m \in DOMAIN metricsCh'[c] :
               m.name = "last_scrape_timeouts" /\ m.value = Num(timeOuts)]_vars

\* a cycle in which two workers of one target ran has reported three errors or
\* more and a timeout
C25_Witness ==
  \E c \in Callers, db \in DbNames :
    /\ cpc[c] = "unlock"
    /\ conns[<<c, db, 0>>].closes = 1 /\ conns[<<c, db, 1>>].closes = 1
    /\ errors >= 3 /\ timeOuts >= 1
    /\ \E m \in DOMAIN metricsCh[c] :
         m.name = "last_scrape_errors" /\ m.value = Num(errors)
    /\ \E m \in DOMAIN metricsCh[c] :
         m.name = "last_scrape_timeouts" /\ m.value = Num(timeOuts)

\* ------------------------------------------------------------- value errors
\* createMetric fails for the row: the value of a Counter or Gauge metric
\* does not convert to a number
ValueFails(job, row) ==
  IF job.Query.NameColumn # ""
    THEN LET n == ToString(Cell(row, job.Query.NameColumn))
         IN /\ n.ok /\ IsValueUsage(job, n.str)
            /\ ToFloat64(Cell(row, job.Query.ValueColumn)).err
    ELSE \E col \in ValueColumns(job, row) : ToFloat64(row[col]).err

\* C26: in both modes a row with a metric value that does not convert counts
\* exactly one error for it, however many of its values fail (and one for each
\* label that does not convert), drops the remaining columns and rows of the
\* job and leaves the worker at the head of its loop over the jobs with no job
\* in hand; every metric already sent stays sent, and the step sends at most
\* one metric for each column converted before the failure.
C26_ValueFailureAbandonsJob ==
  [][\A k \in Conns :
       LET job == wjob[k]
           row == Head(wrows[k])
           E == EmittedNow(k[1])
           good == { col \in ValueColumns(job, row) : ~ToFloat64(row[col]).err }
       IN (RowStep(k) /\ ValueFails(job, row)) =>
            /\ errors' = errors + Cardinality(FailedLabels(job, row)) + 1
            /\ timeOuts' = timeOuts
            /\ wrows'[k] = <<>> /\ wpc'[k] = "recv" /\ wjob'[k] = NoJob
            /\ \A m \in DOMAIN metricsCh[k[1]] :
                 CountIn(metricsCh'[k[1]], m) >= metricsCh[k[1]][m]
            /\ IF job.Query.NameColumn # ""
                 THEN metricsCh' = metricsCh
                 ELSE /\ DOMAIN E \subseteq
                           { Expected(k[2], job, row, col, row[col]) : col \in good }
                      /\ \A m \in DOMAIN E : E[m] = 1
            /\ OthersUntouched(k)]_vars

\* the second row of pg_stat had two values that do not convert: one error is
\* counted, the two metrics of the first row are all the job gave, and the
\* worker is back at the head of its loop
C26_Witness ==
  LET k == <<1, "a", 0>>
  IN
    /\ wpc[k] = "recv" /\ wjob[k] = NoJob /\ wrows[k] = <<>>
    /\ errors = 1 /\ timeOuts = 0
    /\ BagSize([m \in { x \in DOMAIN metricsCh[1] : x.ns = "pg_stat" } |-> metricsCh[1][m]]) = 2
    /\ \E m \in DOMAIN metricsCh[1] : m.ns = "pg_stat" /\ m.name = "lag"
    /\ \E m \in DOMAIN metricsCh[1] : m.ns = "pg_stat" /\ m.name = "xacts"

\* ------------------------------------------------------------- timeouts
\* the workers that have counted a timeout and not yet its error
BetweenIncrements == { k \in Conns : wpc[k] = "timedOut" }

\* C27 (as stated): in every state the timeout counter is at most the error
\* counter.
C27_TimeoutsNeverExceedErrors == timeOuts <= errors

\* C27 (amended): the timeout counter exceeds the error counter by at most the
\* number of workers that have counted a timeout and not yet its error; it
\* is at most the error counter whenever no worker is between the two
\* increments, in particular when the counters are reported.
C27_TimeoutsWithinErrors ==
  /\ timeOuts <= errors + Cardinality(BetweenIncrements)
  /\ BetweenIncrements = {} => timeOuts <= errors
  /\ \A c \in Callers : InternalEmitted(c) =>
       /\ BetweenIncrements = {}
       /\ timeOuts <= errors

\* a cycle whose only failure was a statement timeout reports one timeout and
\* one error
C27_Witness ==
  \E c \in Callers :
    /\ InternalEmitted(c)
    /\ timeOuts = 1 /\ errors = 1
    /\ \A m \in DOMAIN metricsCh[c] :
         m.name \in {"last_scrape_timeouts", "last_scrape_errors"} => m.value = Num(1)

\* ------------------------------------------------------------- teardown
\* the adapters db.New created for the call
Created(c) == { k \in Conns : k[1] = c /\ conns[k].st # "none" }

\* C28: when a cycle returns, every adapter it created was closed exactly
\* once, also an adapter whose version detection or statement-timeout setup
\* failed.
C28_CreatedAdaptersClosed ==
  \A c \in Callers :
    cpc[c] = "unlock" =>
      \A k \in Created(c) : conns[k].st = "closed" /\ conns[k].closes = 1

\* ------------------------------------------------------------- detected version
\* C29: every job of a target that does not skip version detection carries a
\* version that PgVersion returned for the target's instance in this cycle,
\* whatever the order of the targets, also when a target that skips
\* detection shares the instance.
C29_DetectingCarriesDetected ==
  \A c \in Callers : \A db \in DbNames :
    ~config[db].SkipVersionDetection =>
      \A job \in JobsOf(c, db) :
        /\ job.pgVersion \in ServerVersions
        /\ Detections(c, config[db].Instance) # {}

\* ------------------------------------------------------------- empty list
\* C30: for an empty list of variants Query returns the empty string for
\* every version, the no-version sentinel included.
C30_EmptyListUnresolved ==
  (ret.done /\ arg.v = <<>>) => ret.val = ""

\* ------------------------------------------------------------- Db.Exec
\* C31: for every error of the driver Db.Exec returns ErrQueryTimeout exactly
\* when the error is a database error with code 57014 and a message
\* containing "statement timeout", and an ordinary error otherwise, also for
\* an error that is not a database error.
C31_ExecClassifiesEveryError ==
  ret.done =>
    LET timeout == /\ arg.err.kind = "pq" /\ arg.err.code = "57014"
                   /\ Contains(arg.err.msg, <<"statement", "timeout">>)
    IN /\ timeout => ret.val = ErrQueryTimeout
       /\ ~timeout => ret.val = QueryError

\* ------------------------------------------------------------- Describe
\* the (query name, metric name) pairs configured as Counter or Gauge in a
\* query of a target
ValuePairs ==
  UNION { UNION { { [ns |-> config[db].queries[q].Name, name |-> n] :
                      n \in { x \in DOMAIN config[db].queries[q].Metrics :
                                config[db].queries[q].Metrics[x] \in {Counter, Gauge} } } :
                  q \in DOMAIN config[db].queries } :
          db \in DbNames }

\* C32: every metric Collect has emitted has a descriptor of Describe under
\* its (query name, metric name) pair; a query metric is emitted only under a
\* name its target's query configures as Counter or Gauge, in both modes; and
\* Describe gives a descriptor for exactly these pairs and the three internal
\* metrics, none for a Label or Discard definition.
C32_EmittedAreDescribed ==
  /\ \A c \in Callers : \A m \in DOMAIN metricsCh[c] :
       /\ BuildFQName(m.ns, m.name) \in Describe(config)
       /\ m.ns # "pg_exporter" =>
            \E q \in DOMAIN config[m.src].queries :
              /\ config[m.src].queries[q].Name = m.ns
              /\ m.name \in DOMAIN config[m.src].queries[q].Metrics
              /\ config[m.src].queries[q].Metrics[m.name] \in {Counter, Gauge}
              /\ m.kind = IF config[m.src].queries[q].Metrics[m.name] = Counter
                            THEN "counter" ELSE "gauge"
  /\ Describe(config) =
       ValuePairs \cup { [ns |-> "pg_exporter", name |-> n] : n \in InternalNames }

\* a cycle has emitted a metric of the name/value query, a gauge and a
\* counter of the column-mode query and the internal metrics; pad, a Discard
\* column of the rows, and slot_name, a Label column, have no descriptor
C32_Witness ==
  /\ \E m \in DOMAIN metricsCh[1] : m.ns = "pg_settings" /\ m.name = "work_mem"
  /\ \E m \in DOMAIN metricsCh[1] : m.ns = "pg_stat" /\ m.name = "lag"
  /\ \E m \in DOMAIN metricsCh[1] : m.ns = "pg_stat" /\ m.name = "xacts"
  /\ InternalEmitted(1)
  /\ [ns |-> "pg_stat", name |-> "pad"] \notin Describe(config)
  /\ [ns |-> "pg_stat", name |-> "slot_name"] \notin Describe(config)

\* ------------------------------------------------------------- frame
\* C33: mergeLabels leaves the two maps it is passed as they were and returns
\* a map that is neither of them, holding the merged labels: the static
\* labels of the target, shared by its jobs, are not written.
C33_MergeLeavesArguments ==
  ret.done =>
    /\ ret.after.heap[1] = arg.a
    /\ ret.after.heap[2] = arg.b
    /\ ret.after.res \notin {1, 2}
    /\ ret.after.heap[ret.after.res] = ret.val

\* static {env: prod} was merged with dynamic {env: staging, shard: 1}: the
\* result has the dynamic value and the static map still says prod
C33_Witness ==
  /\ ret.done
  /\ arg.a = [id \in {"env"} |-> "prod"]
  /\ arg.b = [id \in {"env", "shard"} |-> IF id = "env" THEN "staging" ELSE "1"]
  /\ ret.val["env"] = "staging"
  /\ ret.after.heap[1]["env"] = "prod"
  /\ DOMAIN ret.after.heap[1] = {"env"}

\* ------------------------------------------------------------- versions
\* the parts of a dotted version string, an omitted part counting as zero
Part(str, j) ==
  LET parts == SplitDots(str)
  IN IF j <= Len(parts) THEN Atoi(parts[j]) ELSE 0

\* a dotted version: one to three runs of digits, minor and patch below 100
Dotted(str) ==
  /\ Len(SplitDots(str)) <= 3
  /\ \A j \in 1..Len(SplitDots(str)) : IsDigits(SplitDots(str)[j])
  /\ Part(str, 2) < 100 /\ Part(str, 3) < 100

\* "show server_version_num" for a release: major*10000 + minor*100 + patch up
\* to 9.6, major*10000 + minor from 10 on (10.5 is 100005)
ServerVersionNum(major, second, third) ==
  IF major > 9 THEN major * 10000 + second ELSE major * 10000 + second * 100 + third

\* C34 (as stated): a dotted version M.m.p parses to M*10000 + m*100 + p
\* for every M, m and p, omitted parts counting as zero; 10.5 gives 100500.
C34_ParseVersionThreeParts ==
  (ret.done /\ Dotted(arg.str)) =>
    /\ ret.val = Part(arg.str, 1) * 10000 + Part(arg.str, 2) * 100 + Part(arg.str, 3)
    /\ arg.str = <<"1", "0", ".", "5">> => ret.val = 100500

\* C34 (amended): a dotted version with a major of at most 9 parses to
\* M*10000 + m*100 + p, omitted parts counting as zero; with a major of 10
\* or more it parses to M*10000 plus its second part, a third part being
\* ignored, which is the number the server reports for that release; 10.5
\* gives 100005; a string that is no dotted version gives 0.
C34_ParseVersionServerNum ==
  ret.done =>
    LET M == Part(arg.str, 1)
        wellFormed == /\ Len(SplitDots(arg.str)) <= 3
                      /\ \A j \in 1..Len(SplitDots(arg.str)) : IsDigits(SplitDots(arg.str)[j])
    IN /\ (wellFormed /\ M <= 9) =>
            ret.val = M * 10000 + Part(arg.str, 2) * 100 + Part(arg.str, 3)
       /\ (wellFormed /\ M > 9) => ret.val = M * 10000 + Part(arg.str, 2)
       /\ wellFormed => ret.val = ServerVersionNum(M, Part(arg.str, 2), Part(arg.str, 3))
       /\ ~wellFormed => ret.val = 0
       /\ arg.str = <<"1", "0", ".", "5">> => ret.val = 100005
       /\ arg.str = <<"5", ".", "1", ".", "5">> => ret.val = 50105

\* 10.5 was parsed
C34_Witness ==
  ret.done /\ arg.str = <<"1", "0", ".", "5">> /\ ret.val = 100005

\* ------------------------------------------------------------- loads
\* C35: for a fixed query file and a fixed version, two loads of the
\* configuration choose the same SQL text for the query.
C35_SameSQLEveryLoad ==
  ret.done => ret.val[1] = ret.val[2]

====
